---- MODULE Spec2Model ----
(***************************************************************************)
(* A model of gofluent's package generator (package gen, Generate and the  *)
(* functions it calls) and of the builders it emits.                       *)
(*                                                                         *)
(* Go strings are sequences of one-character strings, so that the string   *)
(* functions of the generator (strings.Split, strings.Contains,            *)
(* unicode.IsUpper on the first byte, fmt.Sprintf("%s_%d")) are computed   *)
(* and not assumed.  A nil pointer to a typeAttr is the empty sequence, a  *)
(* non-nil one a sequence of length one.  Go maps are TLA+ functions; the  *)
(* order in which a Go map is ranged over is a nondeterministic choice.    *)
(***************************************************************************)
EXTENDS Integers, Sequences, FiniteSets, TLC

(***************************************************************************)
(* Bounds of the model.                                                    *)
(***************************************************************************)
\* The number of field declarations of the analysed structure Order.
MaxFields == 2
\* The number of elements a container of a built value is followed up to.
MaxElems == 1
\* The nesting depth of the type expressions the extractor is probed with.
MaxDepth == 1

VARIABLES
  confPkgs,        \* conf.Pkgs: the package identifiers the caller passes
  orderFields,     \* the field list of structure Order in the analysed source
  pc,              \* Generate's position: load, extract, propagate, emit, done, failed
  err,             \* the error Generate returns ("" for nil)
  pkgs,            \* the global pkgs: the loaded packages, in load order
  loadedPkgs,      \* the global loadedPkgs: the registry of loaded identifiers
  loadCalls,       \* history: the argument list of every packages.Load call
  exportedStructs, \* Generate's exportedStructs
  nextStruct,      \* the index of the structure the extraction loop is at
  toGenerate,      \* Generate's toGenerate: package identifier -> structures
  pending,         \* the keys of toGenerate the current range loop has left
  pkgKeys,         \* the global pkgKeys: package identifier -> alias
  files,           \* the output directory: file name -> rendered content
  rendered,        \* history: package identifier -> the content rendered for it
  run,             \* which run of the generator this is (1 or 2)
  prevFiles,       \* the output directory the first run left
  bld,             \* a builder of the generated API in use: <<>> or <<b>>
  neededPkgs,      \* the command-line variant's global neededPkgs
  variant          \* the variant of the program that runs: its source file

vars == <<confPkgs, orderFields, pc, err, pkgs, loadedPkgs, loadCalls,
          exportedStructs, nextStruct, toGenerate, pending, pkgKeys, files,
          rendered, run, prevFiles, bld, neededPkgs, variant>>

(***************************************************************************)
(* Strings.                                                                *)
(***************************************************************************)
UpperChars ==
  {"A", "B", "C", "D", "E", "F", "G", "H", "I", "J", "K", "L", "M",
   "N", "O", "P", "Q", "R", "S", "T", "U", "V", "W", "X", "Y", "Z"}

Digits == <<"0", "1", "2", "3", "4", "5", "6", "7", "8", "9">>

\* fmt's %d of a natural number.
RECURSIVE FormatInt(_)
FormatInt(i) ==
  IF i < 10 THEN <<Digits[i + 1]>>
  ELSE FormatInt(i \div 10) \o <<Digits[(i % 10) + 1]>>

\* strings.Contains(s, sub)
Contains(s, sub) ==
  \E i \in 0..(Len(s) - Len(sub)) : SubSeq(s, i + 1, i + Len(sub)) = sub

\* The last element of strings.Split(p, "/"): what follows the last "/".
RECURSIVE LastSegment(_)
LastSegment(p) ==
  IF \A i \in 1..Len(p) : p[i] # "/" THEN p
  ELSE LastSegment(Tail(p))

pkgNameFromPath(p) == LastSegment(p)

\* A string is the sequence of its bytes: an ASCII byte is written as its
\* character, a byte of a multi-byte UTF-8 encoding as its two hexadecimal
\* digits.  The letters beyond ASCII that names of the analysed source use
\* are U+00E9 (e with acute, lower case), encoded C3 A9, and U+00C9 (E with
\* acute, upper case), encoded C3 89.
LowerEAcute == <<"C3", "A9">>
UpperEAcute == <<"C3", "89">>

\* unicode.IsUpper(rune(b)) of a byte b, which is the code point of b's value:
\* of the bytes above, C3 alone is an upper-case letter (U+00C3, A with
\* tilde); A9 is the copyright sign and 89 a control character.
IsUpperByte(b) == b \in UpperChars \cup {"C3"}

isNameExported(n) == Len(n) > 0 /\ IsUpperByte(n[1])

isInternalPkg(p) ==
  Contains(p, <<"/", "i", "n", "t", "e", "r", "n", "a", "l", "/">>)

\* The concatenation of a sequence of strings, sep between them.
RECURSIVE Join(_, _)
Join(ss, sep) ==
  IF Len(ss) = 0 THEN <<>>
  ELSE IF Len(ss) = 1 THEN ss[1]
  ELSE ss[1] \o sep \o Join(Tail(ss), sep)

\* LET x == e IN F(x), with e evaluated once.
Let(e, F(_)) == CHOOSE y \in {F(x) : x \in {e}} : TRUE

(***************************************************************************)
(* The analysed program: packages, their type declarations in source       *)
(* order, and the methods declared on them.  What the package loader and   *)
(* the type checker report is read off these tables.                       *)
(***************************************************************************)
PkgA == <<"a", "/", "m">>
PkgB == <<"b", "/", "m">>
PkgC == <<"c", "/", "m", "_", "1">>
PkgInt == <<"x", "/", "i", "n", "t", "e", "r", "n", "a", "l", "/", "y">>
PkgBad == <<"d", "/", "z">>
\* Packages with "internal" as the first and as the last segment of the path.
PkgIntFirst == <<"i", "n", "t", "e", "r", "n", "a", "l", "/", "q">>
PkgIntLast == <<"a", "/", "i", "n", "t", "e", "r", "n", "a", "l">>
\* The package the single-structure variants analyse.
PkgRing == <<"r", "/", "m">>

\* The name in the package clause of each package.
PkgNameOf(p) == pkgNameFromPath(p)

\* Packages the loader cannot load.
FailingPkgs == {PkgBad}

\* Type expressions (go/ast): Ident, SelectorExpr, StarExpr, ArrayType,
\* MapType, FuncType.  kids holds X, Elt, or Key and Value; params and
\* results hold the fields of a FuncType, each a group of names of one type.
TE(kind, name, pkg, kids, params, results) ==
  [kind |-> kind, name |-> name, pkg |-> pkg, kids |-> kids,
   params |-> params, results |-> results]
Ident(n) == TE("Ident", n, <<>>, <<>>, <<>>, <<>>)
Sel(p, n) == TE("Sel", n, p, <<>>, <<>>, <<>>)
Star(x) == TE("Star", <<>>, <<>>, <<x>>, <<>>, <<>>)
Array(e) == TE("Array", <<>>, <<>>, <<e>>, <<>>, <<>>)
Map(k, v) == TE("Map", <<>>, <<>>, <<k, v>>, <<>>, <<>>)
Func(ps, rs) == TE("Func", <<>>, <<>>, <<>>, ps, rs)
\* ChanType and an InterfaceType literal, for which the switch has no case.
Chan(e) == TE("Chan", <<>>, <<>>, <<e>>, <<>>, <<>>)
EmptyInterface == TE("Interface", <<>>, <<>>, <<>>, <<>>, <<>>)
\* One field of a field list: its names and its type.
Field(names, type) == [names |-> names, type |-> type]

N_string == <<"s", "t", "r", "i", "n", "g">>
N_error == <<"e", "r", "r", "o", "r">>
N_Order == <<"O", "r", "d">>
N_Item == <<"I", "t", "e", "m">>
N_Card == <<"C", "a", "r", "d">>
N_Cash == <<"C", "a", "s", "h">>
N_pay == <<"p", "a", "y">>
N_Pay == <<"P", "a", "y">>
N_nop == <<"n", "o", "p">>
N_hid == <<"h", "i", "d">>
N_Ext == <<"E", "x", "t">>
N_T == <<"T">>
N_Sec == <<"S", "e", "c">>
N_ID == <<"I", "D">>
N_Charge == <<"C", "h", "a", "r", "g", "e">>
N_Never == <<"N", "e", "v", "e", "r">>
N_sig == <<"s", "i", "g">>
N_Key == <<"K", "e", "y">>
N_Sign == <<"S", "i", "g", "n">>
N_K == <<"K">>
N_Box == <<"B", "o", "x">>
N_Peer == <<"P", "e", "e", "r">>

T_string == Ident(N_string)

\* The field types the analysed structure Order draws its fields from.
FieldTypes ==
  << T_string,
     Ident(N_Item),
     Star(Ident(N_Item)),
     Array(Ident(N_Item)),
     Map(T_string, Ident(N_Item)),
     Ident(N_pay),
     Ident(N_Pay),
     Ident(N_nop),
     Ident(N_hid),
     Sel(PkgB, N_Ext),
     Sel(PkgC, N_T),
     Sel(PkgInt, N_Sec),
     Sel(PkgBad, N_T),
     Star(Sel(PkgBad, N_T)),
     Array(Sel(PkgBad, N_T)),
     Func(<<Field(<<<<"a">>, <<"b">>>>, T_string)>>,
          <<Field(<<>>, Ident(N_Item))>>) >>

\* A type declaration: a structure with its field list, or an interface
\* with the names of its methods.
StructDecl(n, fs) == [name |-> n, kind |-> "struct", fields |-> fs, methods |-> {}]
IntfDecl(n, ms) == [name |-> n, kind |-> "iface", fields |-> <<>>, methods |-> ms]

\* The type declarations of package p, in source order.
Decls(p) ==
  IF p = PkgA THEN
    << StructDecl(N_Order, orderFields),
       IntfDecl(N_pay, {N_Charge}),
       IntfDecl(N_Pay, {N_Charge}),
       IntfDecl(N_nop, {N_Never}),
       StructDecl(N_hid, <<>>),
       StructDecl(N_Item, <<Field(<<N_ID>>, T_string)>>),
       StructDecl(N_Card, <<Field(<<N_ID>>, T_string)>>),
       StructDecl(N_Cash, <<>>) >>
  ELSE IF p = PkgB THEN
    << StructDecl(N_Ext, <<Field(<<N_ID>>, T_string)>>) >>
  ELSE IF p = PkgC THEN << StructDecl(N_T, <<>>) >>
  ELSE IF p = PkgInt THEN
    << StructDecl(N_Sec, <<Field(<<N_K>>, Ident(N_sig)), Field(<<N_ID>>, T_string)>>),
       IntfDecl(N_sig, {N_Sign}),
       StructDecl(N_Key, <<>>) >>
  ELSE IF p = PkgBad THEN << StructDecl(N_T, <<>>) >>
  ELSE IF p \in {PkgIntFirst, PkgIntLast} THEN << StructDecl(N_T, <<>>) >>
  ELSE IF p = PkgRing THEN
    << StructDecl(N_Order, orderFields),
       StructDecl(N_Item, <<Field(<<N_ID>>, T_string)>>),
       StructDecl(N_Box, <<Field(<<N_K>>, Ident(N_Item))>>),
       StructDecl(N_Peer, <<Field(<<N_K>>, Star(Ident(N_Order)))>>) >>
  ELSE <<>>

\* The methods declared in the analysed program: Card has Charge on a value
\* receiver, Cash has Charge on a pointer receiver, Key has Sign; Ext of
\* package b/m has Charge on a value receiver.
Methods ==
  { [pkg |-> PkgA, recv |-> N_Card, name |-> N_Charge, ptr |-> FALSE],
    [pkg |-> PkgA, recv |-> N_Cash, name |-> N_Charge, ptr |-> TRUE],
    [pkg |-> PkgB, recv |-> N_Ext, name |-> N_Charge, ptr |-> FALSE],
    [pkg |-> PkgInt, recv |-> N_Key, name |-> N_Sign, ptr |-> FALSE] }

\* Whether package p declares a type named n, and that declaration.
HasDecl(p, n) == \E i \in 1..Len(Decls(p)) : Decls(p)[i].name = n
DeclOf(p, n) ==
  Decls(p)[CHOOSE i \in 1..Len(Decls(p)) : Decls(p)[i].name = n]

\* pkg.TypesInfo.Types[e].Type, as far as fillTypeAttr reads it: whether it
\* is a *types.Named, and then its object's name, its object's package
\* (<<>> for the nil package of the universe scope) and its underlying type.
NotNamed == [named |-> FALSE, name |-> <<>>, pkg |-> <<>>, under |-> "", methods |-> {}]
NamedType(n, p, d) ==
  [named |-> TRUE, name |-> n, pkg |-> p, under |-> d.kind, methods |-> d.methods]
TypeOf(pkg, e) ==
  IF e.kind = "Ident" THEN
    IF HasDecl(pkg, e.name) THEN NamedType(e.name, pkg, DeclOf(pkg, e.name))
    ELSE IF e.name = N_error
      THEN NamedType(N_error, <<>>, IntfDecl(N_error, {<<"E", "r", "r", "o", "r">>}))
    ELSE NotNamed
  ELSE IF e.kind = "Sel" /\ HasDecl(e.pkg, e.name)
    THEN NamedType(e.name, e.pkg, DeclOf(e.pkg, e.name))
  ELSE NotNamed

\* types.Implements(T, intf), and with ptr types.Implements(*T, intf), for
\* the structure named n of package p and an interface with methods ms: the
\* method set of T holds the methods with a value receiver, that of *T all.
Implements(p, n, ptr, ms) ==
  \A m \in ms :
    \E d \in Methods :
      d.pkg = p /\ d.recv = n /\ d.name = m /\ (ptr \/ ~d.ptr)

\* packages.Load(pkgLoadConfig, path...): an error, or the packages asked for.
Load(path) ==
  IF \E i \in 1..Len(path) : path[i] \in FailingPkgs
  THEN [err |-> "load", ps |-> <<>>]
  ELSE [err |-> "", ps |-> path]

(***************************************************************************)
(* The type forest.                                                        *)
(***************************************************************************)
\* &typeAttr{}: the zero typeAttr.  DefiningFile is written and never read,
\* and is left out.
NewTypeAttr ==
  [TypeName |-> <<>>, PkgPath |-> <<>>, PkgName |-> <<>>,
   IsPtr |-> FALSE, IsSlice |-> FALSE, IsMap |-> FALSE, IsStruct |-> FALSE,
   IsFunc |-> FALSE, IsIntf |-> FALSE, HasBuilder |-> FALSE,
   SliceValType |-> <<>>, MapKeyType |-> <<>>, MapValType |-> <<>>,
   FuncParamTypes |-> <<>>, FuncResultTypes |-> <<>>,
   StructFields |-> <<>>, Implementations |-> <<>>]

\* &fieldAttr{StructName, FieldName, FuncSuffix, ValType}
NewFieldAttr(sn, fn, suffix, vt) ==
  [StructName |-> sn, FieldName |-> fn, FuncSuffix |-> suffix, ValType |-> vt]

\* The globals the extraction reads and writes, passed along.
Globals(ps, lp, lc) == [pkgs |-> ps, loadedPkgs |-> lp, loadCalls |-> lc]

\* The loop of loadPkgs appending every returned package and leaving the
\* registry as it was.
RECURSIVE addLoadedUnregistered(_, _)
addLoadedUnregistered(ps, g) ==
  IF Len(ps) = 0 THEN g
  ELSE addLoadedUnregistered(Tail(ps), [g EXCEPT !.pkgs = Append(@, Head(ps))])

\* The loop of loadPkgs over the packages the loader returned.
RECURSIVE addLoaded(_, _)
addLoaded(ps, g) ==
  IF Len(ps) = 0 THEN g
  ELSE addLoaded(Tail(ps),
         IF Head(ps) \notin g.loadedPkgs
         THEN [g EXCEPT !.pkgs = Append(@, Head(ps)),
                        !.loadedPkgs = @ \cup {Head(ps)}]
         ELSE g)

loadPkgs(path, g) ==
  LET r == Load(path)
      g1 == [g EXCEPT !.loadCalls = Append(@, path)]
  IN  IF r.err # "" THEN [err |-> r.err, g |-> g1]
      ELSE [err |-> "", g |-> addLoaded(r.ps, g1)]

\* The type specs of package p whose type is a structure type.
findStructsInPkg(p) == SelectSeq(Decls(p), LAMBDA d : d.kind = "struct")

\* &structAttr{StructName, Pkg, TypeSpec}
NewStructAttr(p, d) ==
  [Pkg |-> p, StructName |-> d.name,
   TypeSpec |-> TE("Struct", <<>>, <<>>, <<>>, d.fields, <<>>)]

\* structAttrsOf without the test of the name.
RECURSIVE structAttrsOfAnyName(_, _)
structAttrsOfAnyName(p, ds) ==
  IF Len(ds) = 0 THEN <<>>
  ELSE <<NewStructAttr(p, Head(ds))>> \o structAttrsOfAnyName(p, Tail(ds))

RECURSIVE structAttrsOf(_, _)
structAttrsOf(p, ds) ==
  IF Len(ds) = 0 THEN <<>>
  ELSE (IF isNameExported(Head(ds).name)
        THEN <<NewStructAttr(p, Head(ds))>> ELSE <<>>)
       \o structAttrsOf(p, Tail(ds))

RECURSIVE findExportedStructs(_)
findExportedStructs(ps) ==
  IF Len(ps) = 0 THEN <<>>
  ELSE structAttrsOf(Head(ps), findStructsInPkg(Head(ps)))
       \o findExportedStructs(Tail(ps))

\* What fillTypeAttr returns, with the node and the globals as it leaves them.
Ret(ok, e, t, g) == [ok |-> ok, err |-> e, t |-> t, g |-> g]

RECURSIVE fillTypeAttr(_, _, _, _)
RECURSIVE findImplementationsLoop(_, _, _)
RECURSIVE fillFuncTypes(_, _, _, _)

\* findImplementations's loop with the fields of each candidate structure
\* listed in its node.
RECURSIVE findImplementationsLoopExpanding(_, _, _)
findImplementationsLoopExpanding(structs, intf, g) ==
  IF Len(structs) = 0 THEN [impls |-> <<>>, g |-> g]
  ELSE
    LET sa == Head(structs)
        tattr == [NewTypeAttr EXCEPT
                    !.TypeName = sa.StructName,
                    !.PkgPath = sa.Pkg,
                    !.PkgName = PkgNameOf(sa.Pkg),
                    !.IsStruct = TRUE,
                    !.StructFields =
                      [i \in 1..Len(sa.TypeSpec.params) |->
                         NewFieldAttr(sa.StructName,
                                      sa.TypeSpec.params[i].names[1], <<>>,
                                      NewTypeAttr)]]
        Mine(r) ==
          IF Implements(sa.Pkg, sa.StructName, FALSE, intf) THEN <<r.t>>
          ELSE IF Implements(sa.Pkg, sa.StructName, TRUE, intf)
            THEN <<[r.t EXCEPT !.IsPtr = TRUE]>>
          ELSE <<>>
    IN  Let(fillTypeAttr(sa.Pkg, sa.TypeSpec, tattr, g),
            LAMBDA r :
              Let(findImplementationsLoopExpanding(Tail(structs), intf, r.g),
                  LAMBDA rest :
                    [impls |-> Mine(r) \o rest.impls, g |-> rest.g]))

\* findImplementations's loop with the pointer flag set on every node.
RECURSIVE findImplementationsLoopAllPointers(_, _, _)
findImplementationsLoopAllPointers(structs, intf, g) ==
  IF Len(structs) = 0 THEN [impls |-> <<>>, g |-> g]
  ELSE
    LET sa == Head(structs)
        tattr == [NewTypeAttr EXCEPT !.TypeName = sa.StructName,
                                     !.PkgPath = sa.Pkg,
                                     !.PkgName = PkgNameOf(sa.Pkg),
                                     !.IsPtr = TRUE,
                                     !.IsStruct = TRUE]
        Mine(r) ==
          IF Implements(sa.Pkg, sa.StructName, TRUE, intf) THEN <<r.t>> ELSE <<>>
    IN  Let(fillTypeAttr(sa.Pkg, sa.TypeSpec, tattr, g),
            LAMBDA r :
              Let(findImplementationsLoopAllPointers(Tail(structs), intf, r.g),
                  LAMBDA rest :
                    [impls |-> Mine(r) \o rest.impls, g |-> rest.g]))

\* findImplementations's loop over the exported structures.
findImplementationsLoop(structs, intf, g) ==
  IF Len(structs) = 0 THEN [impls |-> <<>>, g |-> g]
  ELSE
    LET sa == Head(structs)
        tattr == [NewTypeAttr EXCEPT !.TypeName = sa.StructName,
                                     !.PkgPath = sa.Pkg,
                                     !.PkgName = PkgNameOf(sa.Pkg),
                                     !.IsStruct = TRUE]
        Mine(r) ==
          IF Implements(sa.Pkg, sa.StructName, FALSE, intf) THEN <<r.t>>
          ELSE IF Implements(sa.Pkg, sa.StructName, TRUE, intf)
            THEN <<[r.t EXCEPT !.IsPtr = TRUE]>>
          ELSE <<>>
    IN  Let(fillTypeAttr(sa.Pkg, sa.TypeSpec, tattr, g),
            LAMBDA r :
              Let(findImplementationsLoop(Tail(structs), intf, r.g),
                  LAMBDA rest :
                    [impls |-> Mine(r) \o rest.impls, g |-> rest.g]))

findImplementations(ps, intf, g) ==
  findImplementationsLoop(findExportedStructs(ps), intf, g)

\* fillTypeAttr's loops over t.Params.List and t.Results.List: one child for
\* each field of the list.
fillFuncTypes(pkg, fields, acc, g) ==
  IF Len(fields) = 0 THEN [ok |-> TRUE, err |-> "", ts |-> acc, g |-> g]
  ELSE
    Let(fillTypeAttr(pkg, Head(fields).type, NewTypeAttr, g),
        LAMBDA r :
          IF ~r.ok \/ r.err # ""
          THEN [ok |-> FALSE, err |-> r.err, ts |-> acc, g |-> r.g]
          ELSE fillFuncTypes(pkg, Tail(fields), Append(acc, r.t), r.g))

\* fillVisible with an interface kept whatever the resolver returns.
fillVisibleKeepsEmptyInterface(pkg, tp, t, g) ==
  IF tp.pkg # <<>> /\ isInternalPkg(t.PkgPath) THEN Ret(FALSE, "", t, g)
  ELSE
    Let(IF tp.pkg # <<>> /\ t.PkgPath \notin g.loadedPkgs
        THEN loadPkgs(<<t.PkgPath>>, g)
        ELSE [err |-> "", g |-> g],
        LAMBDA ld :
          IF ld.err # "" THEN Ret(FALSE, ld.err, t, ld.g)
          ELSE IF ~isNameExported(t.TypeName) THEN
            IF tp.under = "iface" THEN
              Let(findImplementations(<<pkg>>, tp.methods, ld.g),
                  LAMBDA fi :
                    Ret(TRUE, "",
                        [t EXCEPT !.IsIntf = TRUE,
                                  !.Implementations = fi.impls],
                        fi.g))
            ELSE Ret(FALSE, "", t, ld.g)
          ELSE Ret(TRUE, "", t, ld.g))

\* fillTypeAttr after its switch, once the resolved type tp is a named type
\* and its name and package are recorded in t: the visibility policy.
fillVisible(pkg, tp, t, g) ==
  IF tp.pkg # <<>> /\ isInternalPkg(t.PkgPath) THEN Ret(FALSE, "", t, g)
  ELSE
    Let(IF tp.pkg # <<>> /\ t.PkgPath \notin g.loadedPkgs
        THEN loadPkgs(<<t.PkgPath>>, g)
        ELSE [err |-> "", g |-> g],
        LAMBDA ld :
          IF ld.err # "" THEN Ret(FALSE, ld.err, t, ld.g)
          ELSE IF ~isNameExported(t.TypeName) THEN
            IF tp.under = "iface" THEN
              Let(findImplementations(<<pkg>>, tp.methods, ld.g),
                  LAMBDA fi :
                    Ret(Len(fi.impls) > 0, "",
                        [t EXCEPT !.IsIntf = TRUE,
                                  !.Implementations = fi.impls],
                        fi.g))
            ELSE Ret(FALSE, "", t, ld.g)
          ELSE Ret(TRUE, "", t, ld.g))

\* fillTypeAttr after its switch: the resolved type of the expression.
fillNamed(pkg, tExpr, tAttr, g) ==
  LET tp == TypeOf(pkg, tExpr)
  IN
  IF ~tp.named THEN Ret(TRUE, "", tAttr, g)
  ELSE
    Let(IF tp.pkg # <<>>
        THEN [tAttr EXCEPT !.TypeName = tp.name, !.PkgPath = tp.pkg,
                           !.PkgName = PkgNameOf(tp.pkg)]
        ELSE [tAttr EXCEPT !.TypeName = tp.name],
        LAMBDA t : fillVisible(pkg, tp, t, g))

\* The StarExpr case without the pointer flag.
fillStarUnflagged(pkg, tExpr, tAttr, g) ==
  Let(fillTypeAttr(pkg, tExpr.kids[1], tAttr, g),
      LAMBDA r :
        IF ~r.ok \/ r.err # "" THEN Ret(FALSE, "", r.t, r.g)
        ELSE fillNamed(pkg, tExpr, r.t, r.g))

\* The StarExpr case of fillTypeAttr's switch.
fillStar(pkg, tExpr, tAttr, g) ==
  Let(fillTypeAttr(pkg, tExpr.kids[1], [tAttr EXCEPT !.IsPtr = TRUE], g),
      LAMBDA r :
        IF ~r.ok \/ r.err # "" THEN Ret(FALSE, "", r.t, r.g)
        ELSE fillNamed(pkg, tExpr, r.t, r.g))

\* The ArrayType case.
fillArray(pkg, tExpr, tAttr, g) ==
  Let(fillTypeAttr(pkg, tExpr.kids[1], NewTypeAttr, g),
      LAMBDA r :
        Let([tAttr EXCEPT !.IsSlice = TRUE, !.SliceValType = <<r.t>>],
            LAMBDA t :
              IF ~r.ok \/ r.err # "" THEN Ret(FALSE, r.err, t, r.g)
              ELSE fillNamed(pkg, tExpr, t, r.g)))

\* The MapType case: the key, then the value.
fillMap(pkg, tExpr, tAttr, g) ==
  Let(fillTypeAttr(pkg, tExpr.kids[1], NewTypeAttr, g),
      LAMBDA k :
        IF ~k.ok \/ k.err # ""
        THEN Ret(FALSE, k.err,
                 [tAttr EXCEPT !.IsMap = TRUE, !.MapKeyType = <<k.t>>,
                               !.MapValType = <<NewTypeAttr>>], k.g)
        ELSE
          Let(fillTypeAttr(pkg, tExpr.kids[2], NewTypeAttr, k.g),
              LAMBDA v :
                Let([tAttr EXCEPT !.IsMap = TRUE, !.MapKeyType = <<k.t>>,
                                  !.MapValType = <<v.t>>],
                    LAMBDA t :
                      IF ~v.ok \/ v.err # "" THEN Ret(FALSE, v.err, t, v.g)
                      ELSE fillNamed(pkg, tExpr, t, v.g))))

\* The FuncType case: the parameters, then the results.
fillFunc(pkg, tExpr, tAttr, g) ==
  Let(fillFuncTypes(pkg, tExpr.params, <<>>, g),
      LAMBDA ps :
        IF ~ps.ok \/ ps.err # ""
        THEN Ret(FALSE, ps.err,
                 [tAttr EXCEPT !.IsFunc = TRUE, !.FuncParamTypes = ps.ts],
                 ps.g)
        ELSE
          Let(fillFuncTypes(pkg, tExpr.results, <<>>, ps.g),
              LAMBDA rs :
                Let([tAttr EXCEPT !.IsFunc = TRUE,
                                  !.FuncParamTypes = ps.ts,
                                  !.FuncResultTypes = rs.ts],
                    LAMBDA t :
                      IF ~rs.ok \/ rs.err # "" THEN Ret(FALSE, rs.err, t, rs.g)
                      ELSE fillNamed(pkg, tExpr, t, rs.g))))

fillTypeAttr(pkg, tExpr, tAttr, g) ==
  CASE tExpr.kind = "Ident" ->
         fillNamed(pkg, tExpr, [tAttr EXCEPT !.TypeName = tExpr.name], g)
    [] tExpr.kind = "Star" -> fillStar(pkg, tExpr, tAttr, g)
    [] tExpr.kind = "Array" -> fillArray(pkg, tExpr, tAttr, g)
    [] tExpr.kind = "Map" -> fillMap(pkg, tExpr, tAttr, g)
    [] tExpr.kind = "Func" -> fillFunc(pkg, tExpr, tAttr, g)
    [] OTHER -> fillNamed(pkg, tExpr, tAttr, g)

\* The field attributes one field declaration adds: one for an embedded
\* field, else one for each exported name.
RECURSIVE namedFieldAttrs(_, _, _)
namedFieldAttrs(sn, names, tAttr) ==
  IF Len(names) = 0 THEN <<>>
  ELSE (IF isNameExported(Head(names))
        THEN <<NewFieldAttr(sn, Head(names), <<>>, tAttr)>> ELSE <<>>)
       \o namedFieldAttrs(sn, Tail(names), tAttr)

fieldAttrsOf(sn, f, tAttr) ==
  IF Len(f.names) = 0 THEN <<NewFieldAttr(sn, tAttr.TypeName, <<>>, tAttr)>>
  ELSE namedFieldAttrs(sn, f.names, tAttr)

\* fillStructAttr's loop over st.Fields.List: an unusable field or an error
\* returns from fillStructAttr.
RECURSIVE fillStructAttrLoop(_, _, _, _)
fillStructAttrLoop(pkg, fields, sAttr, g) ==
  IF Len(fields) = 0 THEN [err |-> "", s |-> sAttr, g |-> g]
  ELSE
    Let(fillTypeAttr(pkg, Head(fields).type, NewTypeAttr, g),
        LAMBDA r :
          IF ~r.ok \/ r.err # "" THEN [err |-> r.err, s |-> sAttr, g |-> r.g]
          ELSE
            Let([sAttr EXCEPT !.StructFields =
                   @ \o fieldAttrsOf(sAttr.TypeName, Head(fields), r.t)],
                LAMBDA s1 : fillStructAttrLoop(pkg, Tail(fields), s1, r.g)))

fillStructAttr(pkg, st, sAttr, g) ==
  fillStructAttrLoop(pkg, st.params, sAttr, g)

\* The type names of the structures in toGenerate.
GeneratedNames(m) ==
  UNION {{m[k][i].TypeName : i \in 1..Len(m[k])} : k \in DOMAIN m}

\* fillHasBuilder marking as a structure every node named as a structure
\* of m.
RECURSIVE fillHasBuilderMarkingStructs(_, _)
fillHasBuilderMarkingStructs(t, m) ==
  LET Each(ts) == [i \in 1..Len(ts) |-> fillHasBuilderMarkingStructs(ts[i], m)]
      named == \E k \in DOMAIN m : \E i \in 1..Len(m[k]) :
                 t.TypeName = m[k][i].TypeName
  IN  [t EXCEPT
         !.IsStruct = @ \/ named,
         !.HasBuilder = @ \/ named,
         !.MapKeyType = Each(@),
         !.MapValType = Each(@),
         !.SliceValType = Each(@),
         !.FuncParamTypes = Each(@),
         !.FuncResultTypes = Each(@),
         !.StructFields =
           [i \in 1..Len(@) |->
              [@[i] EXCEPT !.ValType = fillHasBuilderMarkingStructs(@, m)]],
         !.Implementations = Each(@)]

\* The node t after fillHasBuilder(t, m).
RECURSIVE fillHasBuilder(_, _)
fillHasBuilder(t, m) ==
  LET Each(ts) == [i \in 1..Len(ts) |-> fillHasBuilder(ts[i], m)]
  IN  [t EXCEPT
         !.HasBuilder =
           IF t.IsStruct /\ \E k \in DOMAIN m : \E i \in 1..Len(m[k]) :
                               t.TypeName = m[k][i].TypeName
           THEN TRUE ELSE @,
         !.MapKeyType = Each(@),
         !.MapValType = Each(@),
         !.SliceValType = Each(@),
         !.FuncParamTypes = Each(@),
         !.FuncResultTypes = Each(@),
         !.StructFields =
           [i \in 1..Len(@) |->
              [@[i] EXCEPT !.ValType = fillHasBuilder(@, m)]],
         !.Implementations = Each(@)]

\* The elements of a sequence.
Range(ss) == {ss[i] : i \in 1..Len(ss)}

\* The package identifiers collectRequiredPkgsHelper(t, m) adds to m.
RECURSIVE collectRequiredPkgsHelper(_)
collectRequiredPkgsHelper(t) ==
  LET Each(ts) == UNION {collectRequiredPkgsHelper(ts[i]) : i \in 1..Len(ts)}
  IN  (IF t.PkgPath # <<>> THEN {t.PkgPath} ELSE {})
      \cup Each(t.MapKeyType) \cup Each(t.MapValType) \cup Each(t.SliceValType)
      \cup Each(t.FuncParamTypes) \cup Each(t.FuncResultTypes)
      \cup UNION {collectRequiredPkgsHelper(t.StructFields[i].ValType) :
                    i \in 1..Len(t.StructFields)}
      \cup Each(t.Implementations)

collectRequiredPkgs(ts) ==
  UNION {collectRequiredPkgsHelper(ts[i]) : i \in 1..Len(ts)}

\* The orders a Go map with key set S may be ranged over in.
Orders(S) ==
  {o \in [1..Cardinality(S) -> S] : \A i, j \in DOMAIN o : o[i] = o[j] => i = j}

\* m[k] = v in a Go map.
Put(m, k, v) == [x \in DOMAIN m \cup {k} |-> IF x = k THEN v ELSE m[x]]
EmptyMap == [x \in {} |-> <<>>]

\* collectImports's m: final path segment -> the identifiers that end in it.
importGroups(ts) ==
  LET req == collectRequiredPkgs(ts)
  IN  [key \in {pkgNameFromPath(v) : v \in req} |->
         {v \in req : pkgNameFromPath(v) = key}]

\* fmt.Sprintf("%s_%d", pkgKey, i)
suffixedAlias(pkgKey, i) == pkgKey \o <<"_">> \o FormatInt(i)

\* collectImports's inner loop over one group, ranged over in order ps.
RECURSIVE aliasGroup(_, _, _, _)
aliasGroup(ret, pkgKey, ps, i) ==
  IF i >= Len(ps) THEN ret
  ELSE aliasGroup(Put(ret, IF i > 0 THEN suffixedAlias(pkgKey, i) ELSE pkgKey,
                      ps[i + 1]),
                  pkgKey, ps, i + 1)

\* collectImports's outer loop, the groups ranged over in order gOrd and
\* group k in order pOrd[k].
RECURSIVE aliasGroups(_, _, _)
aliasGroups(ret, gOrd, pOrd) ==
  IF Len(gOrd) = 0 THEN ret
  ELSE aliasGroups(aliasGroup(ret, Head(gOrd), pOrd[Head(gOrd)], 0),
                   Tail(gOrd), pOrd)

collectImports(ts, gOrd, pOrd) == aliasGroups(EmptyMap, gOrd, pOrd)

\* The orders collectImports may range over its groups and over each group.
GroupOrders(ts) == Orders(DOMAIN importGroups(ts))
PathOrders(ts) ==
  LET m == importGroups(ts)
  IN  {f \in [DOMAIN m -> UNION {Orders(m[k]) : k \in DOMAIN m}] :
         \A k \in DOMAIN m : Range(f[k]) = m[k]}

\* pkgKeys after Generate's loop over imports: identifier -> alias.
invertImports(imports) ==
  [v \in {imports[k] : k \in DOMAIN imports} |->
     CHOOSE k \in DOMAIN imports : imports[k] = v]

(***************************************************************************)
(* Emission.  A rendered file is kept as the values the templates          *)
(* substitute, in template order: the preamble's package name and imports, *)
(* then for each structure its builder and its setters.                    *)
(***************************************************************************)
S_Builder == <<"B", "u", "i", "l", "d", "e", "r">>
S_With == <<"W", "i", "t", "h">>
S_Add == <<"A", "d", "d">>
S_Put == <<"P", "u", "t">>
S_func == <<"f", "u", "n", "c", "(">>
S_map == <<"m", "a", "p", "[">>
S_fluent == <<"_", "f", "l", "u", "e", "n", "t", ".", "g", "o">>
\* filepath.Base of the absolute output directory.
OutPkg == <<"o", "u", "t">>

\* (t *typeAttr) String(), under the alias table pk.
RECURSIVE String(_, _)
String(t, pk) ==
  LET s == IF t.IsPtr THEN <<"*">> ELSE <<>>
      Each(ts) == [i \in 1..Len(ts) |-> String(ts[i], pk)]
  IN  IF t.IsSlice THEN s \o <<"[", "]">> \o String(t.SliceValType[1], pk)
      ELSE IF t.IsMap THEN
        s \o S_map \o String(t.MapKeyType[1], pk) \o <<"]">>
          \o String(t.MapValType[1], pk)
      ELSE IF t.IsFunc THEN
        s \o S_func \o Join(Each(t.FuncParamTypes), <<",">>) \o <<")">>
          \o <<"(">> \o Join(Each(t.FuncResultTypes), <<",">>) \o <<")">>
      ELSE IF t.HasBuilder THEN
        (IF ~t.IsPtr THEN <<"*">> \o s ELSE s) \o t.TypeName \o S_Builder
      ELSE
        s \o (IF t.PkgPath # <<>> /\ t.PkgPath \in DOMAIN pk
              THEN pk[t.PkgPath] \o <<".">> ELSE <<>>)
          \o t.TypeName

\* (t *typeAttr) InitString()
InitString(t, pk) ==
  IF ~t.IsSlice /\ ~t.IsMap THEN <<>>
  ELSE (IF t.IsPtr THEN <<"&">> \o Tail(String(t, pk)) ELSE String(t, pk))
       \o <<"{", "}">>

\* The template function qualifiedName.
qualifiedName(t, pk) ==
  IF t.PkgPath \in DOMAIN pk THEN pk[t.PkgPath] \o <<".">> \o t.TypeName
  ELSE t.TypeName

\* (f *fieldAttr) getVariations()
getVariations(f) ==
  IF f.ValType.IsIntf THEN
    [i \in 1..Len(f.ValType.Implementations) |->
       NewFieldAttr(f.StructName, f.FieldName,
                    <<"_">> \o f.ValType.Implementations[i].TypeName,
                    f.ValType.Implementations[i])]
  ELSE <<f>>

\* A rendered setter: its method name, the builder it is a method of, the
\* field it assigns, its parameter types, and for each parameter whether
\* .Build() is applied to it.
Setter(kind, fa, name, params, build) ==
  [Kind |-> kind, StructName |-> fa.StructName, Name |-> name,
   FieldName |-> fa.FieldName, Params |-> params, Build |-> build]

\* withFunc with the argument assigned as it is.
withFuncNeverBuilds(fa, pk) ==
  Setter("With", fa, S_With \o fa.FieldName \o fa.FuncSuffix,
         <<String(fa.ValType, pk)>>, <<FALSE>>)

\* withFuncTmpltStr, addFuncTmpltStr and putFuncTmpltStr executed on fa.
withFunc(fa, pk) ==
  Setter("With", fa, S_With \o fa.FieldName \o fa.FuncSuffix,
         <<String(fa.ValType, pk)>>, <<fa.ValType.HasBuilder>>)
addFunc(fa, pk) ==
  Setter("Add", fa, S_Add \o fa.FieldName,
         <<String(fa.ValType.SliceValType[1], pk)>>,
         <<fa.ValType.SliceValType[1].HasBuilder>>)
putFunc(fa, pk) ==
  Setter("Put", fa, S_Put \o fa.FieldName,
         <<String(fa.ValType.MapKeyType[1], pk),
           String(fa.ValType.MapValType[1], pk)>>,
         <<fa.ValType.MapKeyType[1].HasBuilder,
           fa.ValType.MapValType[1].HasBuilder>>)

\* The concatenation of a sequence of sequences.
RECURSIVE Flatten(_)
Flatten(ss) == IF Len(ss) = 0 THEN <<>> ELSE Head(ss) \o Flatten(Tail(ss))

\* The setters Generate renders for one field of a structure.
fieldSetters(sf, pk) ==
  LET v == getVariations(sf)
  IN  [i \in 1..Len(v) |-> withFunc(v[i], pk)]
      \o (IF sf.ValType.IsSlice THEN <<addFunc(sf, pk)>>
          ELSE IF sf.ValType.IsMap THEN <<putFunc(sf, pk)>>
          ELSE <<>>)

\* builderTmpltStr executed on s: the builder type, the New constructor with
\* the fields it initialises, the From constructor and Build.
builder(s, pk) ==
  LET inits == SelectSeq(s.StructFields,
                         LAMBDA f : f.ValType.IsSlice \/ f.ValType.IsMap)
  IN  [TypeName |-> s.TypeName,
       Target |-> qualifiedName(s, pk),
       Inits |-> [i \in 1..Len(inits) |->
                    [FieldName |-> inits[i].FieldName,
                     Init |-> InitString(inits[i].ValType, pk)]],
       Setters |-> Flatten([i \in 1..Len(s.StructFields) |->
                              fieldSetters(s.StructFields[i], pk)])]

\* The file Generate renders for the structures ss of one package.
renderUnit(ss, imports, pk) ==
  [OutPkgName |-> OutPkg, Imports |-> imports,
   Builders |-> [i \in 1..Len(ss) |-> builder(ss[i], pk)]]

outFileOf(ss) == ss[1].PkgName \o S_fluent

(***************************************************************************)
(* Generate, one action for each step of its loops.                        *)
(***************************************************************************)
\* The name of Order's i-th field: F1, F2, ...
FieldName(i) == <<"F">> \o FormatInt(i)

\* The field lists Order may have: up to MaxFields fields, each of one name.
FieldLists ==
  UNION {{[i \in 1..n |-> Field(<<FieldName(i)>>, FieldTypes[c[i]])] :
            c \in [1..n -> 1..Len(FieldTypes)]} : n \in 0..MaxFields}

\* The package lists the caller may pass.
ConfChoices == {<<PkgA>>, <<PkgA, PkgB>>, <<PkgA, PkgBad>>, <<PkgInt>>}

\* The field lists Order is analysed with under package list conf: all of
\* them when a/m is analysed alone, those of at most one field when it is
\* analysed with another package, and the empty one when a/m is not loaded.
FieldListsFor(conf) ==
  IF conf = <<PkgA>> THEN FieldLists
  ELSE IF PkgA \in {conf[i] : i \in 1..Len(conf)} /\ Load(conf).err = ""
    THEN {fl \in FieldLists : Len(fl) <= 1}
  ELSE {<<>>}

Init ==
  /\ confPkgs \in ConfChoices
  /\ orderFields \in FieldListsFor(confPkgs)
  /\ pc = "load"
  /\ err = ""
  /\ pkgs = <<>>
  /\ loadedPkgs = {}
  /\ loadCalls = <<>>
  /\ exportedStructs = <<>>
  /\ nextStruct = 1
  /\ toGenerate = EmptyMap
  /\ pending = {}
  /\ pkgKeys = EmptyMap
  /\ files = EmptyMap
  /\ rendered = EmptyMap
  /\ run = 1
  /\ prevFiles = EmptyMap
  /\ bld = <<>>
  /\ neededPkgs = {}
  /\ variant = "part_000"

\* Generate up to its extraction loop: the initial load and the discovery.
GenLoad ==
  /\ pc = "load"
  /\ \E r \in {loadPkgs(confPkgs, Globals(pkgs, loadedPkgs, loadCalls))} :
     LET found == findExportedStructs(r.g.pkgs)
     IN  /\ pkgs' = r.g.pkgs
         /\ loadedPkgs' = r.g.loadedPkgs
         /\ loadCalls' = r.g.loadCalls
         /\ IF r.err # ""
            THEN /\ pc' = "failed"
                 /\ err' = r.err
                 /\ exportedStructs' = exportedStructs
            ELSE /\ pc' = IF Len(found) = 0 THEN "done" ELSE "extract"
                 /\ err' = err
                 /\ exportedStructs' = found
  /\ UNCHANGED <<variant, neededPkgs, confPkgs, orderFields, nextStruct, toGenerate, pending,
                 pkgKeys, files, rendered, run, prevFiles, bld>>

\* One iteration of Generate's loop over exportedStructs.
GenExtract ==
  /\ pc = "extract"
  /\ LET es == exportedStructs[nextStruct]
         sAttr == [NewTypeAttr EXCEPT !.TypeName = es.StructName,
                                      !.PkgPath = es.Pkg,
                                      !.PkgName = PkgNameOf(es.Pkg),
                                      !.IsStruct = TRUE]
         old == IF es.Pkg \in DOMAIN toGenerate THEN toGenerate[es.Pkg] ELSE <<>>
     IN
     \E r \in {fillStructAttr(es.Pkg, es.TypeSpec, sAttr,
                              Globals(pkgs, loadedPkgs, loadCalls))} :
     \E m \in {Put(toGenerate, es.Pkg, Append(old, r.s))} :
         /\ pkgs' = r.g.pkgs
         /\ loadedPkgs' = r.g.loadedPkgs
         /\ loadCalls' = r.g.loadCalls
         /\ toGenerate' = m
         /\ nextStruct' = nextStruct + 1
         /\ IF r.err # ""
            THEN pc' = "failed" /\ err' = r.err /\ pending' = pending
            ELSE IF nextStruct = Len(exportedStructs)
            THEN pc' = "propagate" /\ err' = err /\ pending' = DOMAIN m
            ELSE pc' = pc /\ err' = err /\ pending' = pending
  /\ UNCHANGED <<variant, neededPkgs, confPkgs, orderFields, exportedStructs, pkgKeys, files,
                 rendered, run, prevFiles, bld>>

\* The propagation loop left after its first iteration.
GenPropagateFirstOnly(k) ==
  /\ pc = "propagate"
  /\ k \in pending
  /\ toGenerate' =
       [toGenerate EXCEPT
          ![k] = [i \in 1..Len(@) |-> fillHasBuilder(@[i], toGenerate)]]
  /\ pc' = "emit"
  /\ pending' = DOMAIN toGenerate
  /\ UNCHANGED <<variant, neededPkgs, confPkgs, orderFields, err, pkgs, loadedPkgs, loadCalls,
                 exportedStructs, nextStruct, pkgKeys, files, rendered, run,
                 prevFiles, bld>>

\* One iteration of Generate's propagation loop: the structures of the
\* package that the range over toGenerate yields next.
GenPropagate(k) ==
  /\ pc = "propagate"
  /\ k \in pending
  /\ toGenerate' =
       [toGenerate EXCEPT
          ![k] = [i \in 1..Len(@) |-> fillHasBuilder(@[i], toGenerate)]]
  /\ IF pending = {k}
     THEN pc' = "emit" /\ pending' = DOMAIN toGenerate
     ELSE pc' = pc /\ pending' = pending \ {k}
  /\ UNCHANGED <<variant, neededPkgs, confPkgs, orderFields, err, pkgs, loadedPkgs, loadCalls,
                 exportedStructs, nextStruct, pkgKeys, files, rendered, run,
                 prevFiles, bld>>

\* One iteration of Generate's emission loop: the import table, the alias
\* table, the rendering and the write of one package's file.
GenEmit(k, gOrd, pOrd) ==
  /\ pc = "emit"
  /\ k \in pending
  /\ \E ss \in {toGenerate[k]} :
     \E imports \in {collectImports(ss, gOrd, pOrd)} :
     \E pk \in {invertImports(imports)} :
     \E content \in {renderUnit(ss, imports, pk)} :
         /\ pkgKeys' = pk
         /\ files' = Put(files, outFileOf(ss), content)
         /\ rendered' = Put(rendered, k, content)
  /\ IF pending = {k}
     THEN pc' = "done" /\ pending' = {}
     ELSE pc' = pc /\ pending' = pending \ {k}
  /\ UNCHANGED <<variant, neededPkgs, confPkgs, orderFields, err, pkgs, loadedPkgs, loadCalls,
                 exportedStructs, nextStruct, toGenerate, run, prevFiles, bld>>

\* The generator is run a second time on the same input, in a new process
\* and into an empty output directory; the first run's files are kept aside.
Rerun ==
  /\ pc = "done"
  /\ run = 1
  /\ run' = 2
  /\ prevFiles' = files
  /\ pc' = "load"
  /\ err' = ""
  /\ pkgs' = <<>>
  /\ loadedPkgs' = {}
  /\ loadCalls' = <<>>
  /\ exportedStructs' = <<>>
  /\ nextStruct' = 1
  /\ toGenerate' = EmptyMap
  /\ pending' = {}
  /\ pkgKeys' = EmptyMap
  /\ files' = EmptyMap
  /\ rendered' = EmptyMap
  /\ bld' = <<>>
  /\ UNCHANGED <<variant, neededPkgs, confPkgs, orderFields>>

(***************************************************************************)
(* The generated API in use.  Of the value a builder wraps, the slice and  *)
(* map fields that have an Add or Put setter are followed: whether the     *)
(* container is set (not nil) and how many elements it holds.              *)
(***************************************************************************)
ContainerVals ==
  {[set |-> FALSE, len |-> 0]} \cup {[set |-> TRUE, len |-> n] : n \in 0..MaxElems}

\* The fields of rendered builder b that have an Add or a Put setter.
Containers(b) ==
  {b.Setters[j].FieldName :
     j \in {j \in 1..Len(b.Setters) : b.Setters[j].Kind \in {"Add", "Put"}}}

Builder(fn, i, vals) ==
  [File |-> fn, Index |-> i, Vals |-> vals, Panicked |-> FALSE]

\* The rendered builder that bld is an instance of.
BuilderOf(b) == files[b.File].Builders[b.Index]

\* New<T>(): a value with the fields of the constructor's initialisations
\* set to empty containers.
UseNew(fn, i) ==
  /\ pc = "done"
  /\ bld = <<>>
  /\ LET b == files[fn].Builders[i]
         inits == {b.Inits[j].FieldName : j \in 1..Len(b.Inits)}
     IN  bld' = <<Builder(fn, i,
                    [f \in Containers(b) |-> [set |-> f \in inits, len |-> 0]])>>
  /\ UNCHANGED <<variant, neededPkgs, confPkgs, orderFields, pc, err, pkgs, loadedPkgs, loadCalls,
                 exportedStructs, nextStruct, toGenerate, pending, pkgKeys,
                 files, rendered, run, prevFiles>>

\* From<T>(a): the builder wraps the caller's value a as it is.
UseFrom(fn, i, a) ==
  /\ pc = "done"
  /\ bld = <<>>
  /\ bld' = <<Builder(fn, i, a)>>
  /\ UNCHANGED <<variant, neededPkgs, confPkgs, orderFields, pc, err, pkgs, loadedPkgs, loadCalls,
                 exportedStructs, nextStruct, toGenerate, pending, pkgKeys,
                 files, rendered, run, prevFiles>>

\* With<F>(a) on a slice or map field: the field is assigned a.
UseWith(j, a) ==
  /\ pc = "done"
  /\ bld # <<>>
  /\ ~bld[1].Panicked
  /\ j \in 1..Len(BuilderOf(bld[1]).Setters)
  /\ LET st == BuilderOf(bld[1]).Setters[j]
     IN  /\ st.Kind = "With"
         /\ st.FieldName \in DOMAIN bld[1].Vals
         /\ bld' = <<[bld[1] EXCEPT !.Vals[st.FieldName] = a]>>
  /\ UNCHANGED <<variant, neededPkgs, confPkgs, orderFields, pc, err, pkgs, loadedPkgs, loadCalls,
                 exportedStructs, nextStruct, toGenerate, pending, pkgKeys,
                 files, rendered, run, prevFiles>>

\* Add<F>(a): append to the field; append allocates when the slice is nil.
UseAdd(j) ==
  /\ pc = "done"
  /\ bld # <<>>
  /\ ~bld[1].Panicked
  /\ j \in 1..Len(BuilderOf(bld[1]).Setters)
  /\ LET st == BuilderOf(bld[1]).Setters[j]
         c == bld[1].Vals[st.FieldName]
     IN  /\ st.Kind = "Add"
         /\ c.len < MaxElems
         /\ bld' = <<[bld[1] EXCEPT
                        !.Vals[st.FieldName] = [set |-> TRUE, len |-> c.len + 1]]>>
  /\ UNCHANGED <<variant, neededPkgs, confPkgs, orderFields, pc, err, pkgs, loadedPkgs, loadCalls,
                 exportedStructs, nextStruct, toGenerate, pending, pkgKeys,
                 files, rendered, run, prevFiles>>

\* Put<F>(k, v): an index assignment into the field; it panics on a nil map.
UsePut(j) ==
  /\ pc = "done"
  /\ bld # <<>>
  /\ ~bld[1].Panicked
  /\ j \in 1..Len(BuilderOf(bld[1]).Setters)
  /\ LET st == BuilderOf(bld[1]).Setters[j]
         c == bld[1].Vals[st.FieldName]
     IN  /\ st.Kind = "Put"
         /\ c.len < MaxElems
         /\ bld' = <<IF c.set
                     THEN [bld[1] EXCEPT !.Vals[st.FieldName].len = c.len + 1]
                     ELSE [bld[1] EXCEPT !.Panicked = TRUE]>>
  /\ UNCHANGED <<variant, neededPkgs, confPkgs, orderFields, pc, err, pkgs, loadedPkgs, loadCalls,
                 exportedStructs, nextStruct, toGenerate, pending, pkgKeys,
                 files, rendered, run, prevFiles>>

\* The setters of the builder in use, by their position in the file.
SetterIndexes ==
  IF pc = "done" /\ bld # <<>> THEN 1..Len(BuilderOf(bld[1]).Setters) ELSE {}

Next ==
  \/ GenLoad
  \/ GenExtract
  \/ \E k \in pending : GenPropagate(k)
  \/ \E k \in pending :
       \E gOrd \in GroupOrders(toGenerate[k]) :
         \E pOrd \in PathOrders(toGenerate[k]) : GenEmit(k, gOrd, pOrd)
  \/ Rerun
  \/ \E fn \in DOMAIN files : \E i \in 1..Len(files[fn].Builders) : UseNew(fn, i)
  \/ \E fn \in DOMAIN files : \E i \in 1..Len(files[fn].Builders) :
       \E a \in [Containers(files[fn].Builders[i]) -> ContainerVals] :
         UseFrom(fn, i, a)
  \/ \E j \in SetterIndexes : \E a \in ContainerVals : UseWith(j, a)
  \/ \E j \in SetterIndexes : UseAdd(j)
  \/ \E j \in SetterIndexes : UsePut(j)

Spec == Init /\ [][Next]_vars

(***************************************************************************)
(* The generator on a structure Order of one field declaration, of one or  *)
(* two names, whose type is drawn from all type expressions of a bounded    *)
(* nesting depth.                                                          *)
(***************************************************************************)
ProbeLeaves ==
  { T_string, Ident(N_Item), Ident(N_Order), Ident(N_pay), Ident(N_Pay),
    Ident(N_nop), Ident(N_hid), Sel(PkgB, N_Ext), Sel(PkgInt, N_Sec),
    Sel(PkgIntFirst, N_T), Sel(PkgIntLast, N_T), Sel(PkgBad, N_T),
    Chan(T_string), EmptyInterface,
    Func(<<Field(<<<<"a">>, <<"b">>>>, T_string)>>, <<Field(<<>>, Ident(N_Item))>>),
    Func(<<Field(<<>>, T_string), Field(<<>>, Ident(N_Item))>>, <<>>) }

\* The type expressions that wrap one of S once.
Wrapped(S) ==
  {Star(x) : x \in S} \cup {Array(x) : x \in S}
    \cup {Map(T_string, x) : x \in S} \cup {Map(x, T_string) : x \in S}
    \cup {Func(<<Field(<<<<"a">>>>, x)>>, <<>>) : x \in S}

RECURSIVE TypesUpTo(_)
TypesUpTo(d) ==
  IF d = 0 THEN ProbeLeaves
  ELSE LET S == TypesUpTo(d - 1) IN S \cup Wrapped(S)

ProbeTypes == TypesUpTo(MaxDepth)

ProbeFieldLists ==
  {<<Field(names, t)>> :
     names \in {<<FieldName(1)>>, <<FieldName(1), FieldName(2)>>},
     t \in ProbeTypes}

InitProbe ==
  /\ confPkgs \in {<<PkgA>>, <<PkgA, PkgB>>, <<PkgA, PkgBad>>}
  /\ orderFields \in ProbeFieldLists
  /\ pc = "load"
  /\ err = ""
  /\ pkgs = <<>>
  /\ loadedPkgs = {}
  /\ loadCalls = <<>>
  /\ exportedStructs = <<>>
  /\ nextStruct = 1
  /\ toGenerate = EmptyMap
  /\ pending = {}
  /\ pkgKeys = EmptyMap
  /\ files = EmptyMap
  /\ rendered = EmptyMap
  /\ run = 1
  /\ prevFiles = EmptyMap
  /\ bld = <<>>
  /\ neededPkgs = {}
  /\ variant = "part_000"

SpecProbe == InitProbe /\ [][Next]_vars

(***************************************************************************)
(* Properties.                                                             *)
(***************************************************************************)
\* The globals as they are now.
G == Globals(pkgs, loadedPkgs, loadCalls)

\* fillTypeAttr's verdict on Order's i-th field, taken alone.
Verdict(i) == fillTypeAttr(PkgA, orderFields[i].type, NewTypeAttr, G)

\* The packages a type expression names.
RECURSIVE Mentions(_)
Mentions(e) ==
  (IF e.kind = "Sel" THEN {e.pkg} ELSE {})
  \cup UNION {Mentions(e.kids[i]) : i \in 1..Len(e.kids)}
  \cup UNION {Mentions(e.params[i].type) : i \in 1..Len(e.params)}
  \cup UNION {Mentions(e.results[i].type) : i \in 1..Len(e.results)}

\* No package the run has to load fails to load.
AllLoadsSucceed ==
  /\ \A i \in 1..Len(confPkgs) : confPkgs[i] \notin FailingPkgs
  /\ \A i \in 1..Len(orderFields) :
       Mentions(orderFields[i].type) \cap FailingPkgs = {}

\* Order's rendered builder, and its setters for the field named fn.
OrderIsRendered == pc = "done" /\ PkgA \in DOMAIN rendered
OrderBuilder ==
  LET bs == rendered[PkgA].Builders
  IN  bs[CHOOSE i \in 1..Len(bs) : bs[i].TypeName = N_Order]
SettersOf(b, fn) ==
  {b.Setters[j] : j \in {j \in 1..Len(b.Setters) : b.Setters[j].FieldName = fn}}
InitsOf(b) == {b.Inits[j].FieldName : j \in 1..Len(b.Inits)}

\* Order's i-th field has its setters, and its initialisation if it is a
\* slice or a map.
FieldIsEmitted(i) ==
  LET sts == SettersOf(OrderBuilder, FieldName(i))
      kind == orderFields[i].type.kind
  IN  /\ \E st \in sts : st.Kind = "With"
      /\ kind = "Array" =>
           FieldName(i) \in InitsOf(OrderBuilder) /\ \E st \in sts : st.Kind = "Add"
      /\ kind = "Map" =>
           FieldName(i) \in InitsOf(OrderBuilder) /\ \E st \in sts : st.Kind = "Put"

\* C1: when fields of a structure are unusable and no load fails, Generate
\* returns no error and every usable field of the structure, also one
\* declared after an unusable one, has its setters and its initialisation.
C1_OnlyTheUnusableFieldIsOmitted ==
  (AllLoadsSucceed /\ \E i \in 1..Len(orderFields) : ~Verdict(i).ok) =>
    /\ pc # "failed"
    /\ OrderIsRendered =>
         \A i \in 1..Len(orderFields) : Verdict(i).ok => FieldIsEmitted(i)

\* The exported structures of the loaded packages that satisfy an interface
\* with methods ms, by value or by pointer.
DiscoveredImpls(ms) ==
  UNION {{d.name : d \in {d \in Range(Decls(pkgs[p])) :
                            /\ d.kind = "struct"
                            /\ isNameExported(d.name)
                            /\ Implements(pkgs[p], d.name, TRUE, ms)}} :
           p \in 1..Len(pkgs)}

\* C2: a field of an interface type with implementations {A, B} has exactly
\* the setters WithF_A and WithF_B.  Stated for a structure all of whose
\* fields are usable.
C2_InterfaceFieldHasOneSetterPerImplementation ==
  (OrderIsRendered /\ \A i \in 1..Len(orderFields) : Verdict(i).ok) =>
    \A i \in 1..Len(orderFields) :
      LET tp == TypeOf(PkgA, orderFields[i].type)
          impls == DiscoveredImpls(tp.methods)
      IN  (tp.named /\ tp.under = "iface" /\ impls # {}) =>
            {st.Name : st \in SettersOf(OrderBuilder, FieldName(i))}
              = {S_With \o FieldName(i) \o <<"_">> \o n : n \in impls}

\* The nodes of the tree below t, t included.
RECURSIVE Nodes(_)
Nodes(t) ==
  LET Each(ts) == UNION {Nodes(ts[i]) : i \in 1..Len(ts)}
  IN  {t} \cup Each(t.MapKeyType) \cup Each(t.MapValType)
          \cup Each(t.SliceValType) \cup Each(t.FuncParamTypes)
          \cup Each(t.FuncResultTypes) \cup Each(t.Implementations)
          \cup UNION {Nodes(t.StructFields[i].ValType) :
                        i \in 1..Len(t.StructFields)}

\* The nodes reachable from the fields of the structures of the generation set.
FieldNodes ==
  UNION {UNION {UNION {Nodes(toGenerate[k][i].StructFields[j].ValType) :
                         j \in 1..Len(toGenerate[k][i].StructFields)} :
                  i \in 1..Len(toGenerate[k])} :
           k \in DOMAIN toGenerate}

\* C3: after the propagation pass every node reachable from a generated
\* structure's fields that is named as a generated structure has HasBuilder.
C3_NamedAsGeneratedHasBuilder ==
  pc \in {"emit", "done"} =>
    \A n \in FieldNodes :
      n.TypeName \in GeneratedNames(toGenerate) => n.HasBuilder

\* C4: however a builder was made (New or From) and whatever setters were
\* called on it before, no Put setter inserts into a nil map, which panics.
C4_NoSetterActsOnNilContainer == bld # <<>> => ~bld[1].Panicked

\* The type nodes the setters of one field test, setter by setter and
\* parameter by parameter.
ArgNodes(sf) ==
  LET v == getVariations(sf)
  IN  [i \in 1..Len(v) |-> <<v[i].ValType>>]
      \o (IF sf.ValType.IsSlice THEN <<<<sf.ValType.SliceValType[1]>>>>
          ELSE IF sf.ValType.IsMap
            THEN <<<<sf.ValType.MapKeyType[1], sf.ValType.MapValType[1]>>>>
          ELSE <<>>)
StructArgNodes(s) ==
  Flatten([i \in 1..Len(s.StructFields) |-> ArgNodes(s.StructFields[i])])

\* The builder type of the structure a node names.
BuilderTypeOf(n) == <<"*">> \o n.TypeName \o S_Builder

\* C5: every parameter of every rendered setter has .Build() applied exactly
\* when its type node has HasBuilder, and is of the builder type exactly then.
C5_BuildExactlyWhenHasBuilder ==
  \A k \in DOMAIN rendered :
    \A si \in 1..Len(toGenerate[k]) :
      LET sts == rendered[k].Builders[si].Setters
          args == StructArgNodes(toGenerate[k][si])
      IN  /\ Len(sts) = Len(args)
          /\ \A j \in 1..Len(sts) :
               /\ Len(sts[j].Build) = Len(args[j])
               /\ Len(sts[j].Params) = Len(args[j])
               /\ \A i \in 1..Len(args[j]) :
                    /\ sts[j].Build[i] = args[j][i].HasBuilder
                    /\ (sts[j].Params[i] = BuilderTypeOf(args[j][i]))
                         = args[j][i].HasBuilder

\* A rendered Order has a setter that finalizes its argument and one that
\* assigns it as it is.
C5_Witness ==
  /\ OrderIsRendered
  /\ \E j \in 1..Len(OrderBuilder.Setters) : OrderBuilder.Setters[j].Build[1]
  /\ \E j \in 1..Len(OrderBuilder.Setters) : ~OrderBuilder.Setters[j].Build[1]

\* A packages.Load call of this run failed.
FailedLoad == \E i \in 1..Len(loadCalls) : Load(loadCalls[i]).err # ""

\* C6: once a load has failed, wherever in a field's type, Generate has
\* stopped with that error and has written no file.
C6_LoadFailureIsFatal ==
  FailedLoad => pc = "failed" /\ err = "load" /\ DOMAIN files = {}

\* The fields, of the exported structures under extraction, whose declared
\* type is a named type that is not exported.
UnexportedNamedFields ==
  UNION {{[pkg |-> exportedStructs[e].Pkg,
           struct |-> exportedStructs[e].StructName,
           field |-> exportedStructs[e].TypeSpec.params[i]] :
            i \in {i \in 1..Len(exportedStructs[e].TypeSpec.params) :
                     LET tp == TypeOf(exportedStructs[e].Pkg,
                                      exportedStructs[e].TypeSpec.params[i].type)
                     IN  tp.named /\ ~isNameExported(tp.name)}} :
           e \in 1..Len(exportedStructs)}

\* The rendered builder of structure sn of package p has nothing for field f.
AbsentFromOutput(p, sn, f) ==
  (pc = "done" /\ p \in DOMAIN rendered) =>
    LET bs == rendered[p].Builders
        b == bs[CHOOSE i \in 1..Len(bs) : bs[i].TypeName = sn]
    IN  \A n \in Range(f.names) : SettersOf(b, n) = {} /\ n \notin InitsOf(b)

\* fillTypeAttr's verdict on field x is the one the visibility policy gives
\* a type that is not exported.
UnexportedVerdict(x) ==
  LET tp == TypeOf(x.pkg, x.field.type)
      r == fillTypeAttr(x.pkg, x.field.type, NewTypeAttr, G)
      found == findImplementations(<<x.pkg>>, tp.methods, G).impls
  IN  /\ r.err = ""
      /\ tp.under # "iface" => ~r.ok
      /\ tp.under = "iface" =>
           /\ r.t.IsIntf
           /\ r.t.Implementations = found
           /\ r.ok = (Len(found) > 0)
      /\ ~r.ok => AbsentFromOutput(x.pkg, x.struct, x.field)

C8_ImportsAreABijection ==
  \A k \in DOMAIN rendered :
    LET imp == rendered[k].Imports
    IN  /\ {imp[a] : a \in DOMAIN imp} = collectRequiredPkgs(toGenerate[k])
        /\ \A a, b \in DOMAIN imp : imp[a] = imp[b] => a = b

\* C9: when Generate is done, every package of the generation set has its
\* file in the output directory, no two of them the same file.
C9_OneFilePerPackage ==
  pc = "done" =>
    /\ Cardinality(DOMAIN files) = Cardinality(DOMAIN toGenerate)
    /\ \A k \in DOMAIN toGenerate :
         \E fn \in DOMAIN files : files[fn] = rendered[k]

\* C10: a second run on the same input leaves the same files as the first.
C10_RunsAgree == (run = 2 /\ pc = "done") => files = prevFiles

\* The exported structures the packages of the initial load declare at
\* package scope, each with its package.
InitialStructs ==
  UNION {{<<p, d.name>> : d \in {d \in Range(Decls(p)) :
                                    d.kind = "struct" /\ isNameExported(d.name)}} :
           p \in Range(Load(confPkgs).ps)}

\* The entries of the generation set, by position and by package and name.
GenerationEntries ==
  UNION {{<<k, i>> : i \in 1..Len(toGenerate[k])} : k \in DOMAIN toGenerate}
GenerationSet == {<<e[1], toGenerate[e[1]][e[2]].TypeName>> : e \in GenerationEntries}

RECURSIVE SplitPath(_)
SplitPath(p) ==
  IF \A i \in 1..Len(p) : p[i] # "/" THEN <<p>>
  ELSE LET i == CHOOSE i \in 1..Len(p) :
                  p[i] = "/" /\ \A j \in 1..(i - 1) : p[j] # "/"
       IN  <<SubSeq(p, 1, i - 1)>> \o SplitPath(SubSeq(p, i + 1, Len(p)))

\* A segment of path p is "internal".
HasInternalSegment(p) ==
  <<"i", "n", "t", "e", "r", "n", "a", "l">> \in Range(SplitPath(p))

\* Order has been through the extraction loop; its node in the forest.
OrderExtracted == PkgA \in DOMAIN toGenerate
OrderNode == toGenerate[PkgA][1]

\* C12: a field whose type names a type of a package with a segment
\* "internal" (first, middle or last) is extracted as unusable, and the
\* extractor passes no such package to the loader.
C12_InternalSegmentIsRejected ==
  OrderExtracted =>
    \A i \in 1..Len(orderFields) :
      (\E p \in Mentions(orderFields[i].type) : HasInternalSegment(p)) =>
        /\ OrderNode.StructFields = <<>>
        /\ \A c \in 2..Len(loadCalls) :
             \A p \in Range(loadCalls[c]) : ~HasInternalSegment(p)

\* The number of type expressions nested in e, e included.
RECURSIVE ExprSize(_)
RECURSIVE ExprSizes(_)
ExprSize(e) ==
  1 + ExprSizes(e.kids)
    + ExprSizes([i \in 1..Len(e.params) |-> e.params[i].type])
    + ExprSizes([i \in 1..Len(e.results) |-> e.results[i].type])
ExprSizes(es) == IF Len(es) = 0 THEN 0 ELSE ExprSize(Head(es)) + ExprSizes(Tail(es))

\* The number of calls of fillHasBuilder on a node that fillHasBuilder(t, m)
\* makes, and the number of them that are on an implementation.
RECURSIVE Visits(_)
RECURSIVE VisitsAll(_)
Visits(t) ==
  1 + VisitsAll(t.MapKeyType) + VisitsAll(t.MapValType)
    + VisitsAll(t.SliceValType) + VisitsAll(t.FuncParamTypes)
    + VisitsAll(t.FuncResultTypes)
    + VisitsAll([i \in 1..Len(t.StructFields) |-> t.StructFields[i].ValType])
    + VisitsAll(t.Implementations)
VisitsAll(ts) == IF Len(ts) = 0 THEN 0 ELSE Visits(Head(ts)) + VisitsAll(Tail(ts))

RECURSIVE ImplVisits(_)
RECURSIVE ImplVisitsAll(_)
ImplVisits(t) ==
  ImplVisitsAll(t.MapKeyType) + ImplVisitsAll(t.MapValType)
    + ImplVisitsAll(t.SliceValType) + ImplVisitsAll(t.FuncParamTypes)
    + ImplVisitsAll(t.FuncResultTypes)
    + ImplVisitsAll([i \in 1..Len(t.StructFields) |-> t.StructFields[i].ValType])
    + VisitsAll(t.Implementations)
ImplVisitsAll(ts) ==
  IF Len(ts) = 0 THEN 0 ELSE ImplVisits(Head(ts)) + ImplVisitsAll(Tail(ts))

\* The structures of the generation set.
Roots == {toGenerate[e[1]][e[2]] : e \in GenerationEntries}

\* The field declaration of structure s that its j-th field attribute is of.
DeclaredField(s, j) ==
  CHOOSE f \in Range(DeclOf(s.PkgPath, s.TypeName).fields) :
    s.StructFields[j].FieldName \in Range(f.names)

\* The i-th and the j-th field attribute of s hold the same node: they are
\* of two names of one field declaration.
SharesNode(s, i, j) == i # j /\ DeclaredField(s, i) = DeclaredField(s, j)

\* C13 as stated: the recursion of fillHasBuilder comes to no node twice.
C13_NoNodeIsVisitedTwice ==
  \A s \in Roots : \A i, j \in 1..Len(s.StructFields) : ~SharesNode(s, i, j)

\* C13 amended: below every field of every structure of the generation
\* set, also of one that refers to itself, no node holds the fields of a
\* structure, and the nodes that are not implementations are no more than
\* the type expressions nested in the field's declared type.
C13_ForestIsBoundedByTheDeclarations ==
  \A s \in Roots :
    \A j \in 1..Len(s.StructFields) :
      LET v == s.StructFields[j].ValType
      IN  /\ \A n \in Nodes(v) : n.StructFields = <<>>
          /\ Visits(v) - ImplVisits(v) <= ExprSize(DeclaredField(s, j).type)

\* Generate is done on an Order that refers to itself through a pointer, a
\* slice or a map.
C13_Witness ==
  /\ pc = "done"
  /\ orderFields[1].type \in Wrapped({Ident(N_Order)})
  /\ Len(OrderNode.StructFields) > 0
  /\ OrderNode.StructFields[1].ValType.TypeName = N_Order
       \/ \E n \in Nodes(OrderNode.StructFields[1].ValType) : n.TypeName = N_Order

\* The exported structures of the packages ps whose value type or pointer
\* type has the methods ms, each with its package.
Satisfying(ps, ms) ==
  UNION {{<<p, d.name>> : d \in {d \in Range(Decls(p)) :
                                    /\ d.kind = "struct"
                                    /\ isNameExported(d.name)
                                    /\ Implements(p, d.name, TRUE, ms)}} :
           p \in ps}

\* C14: the implementations recorded for a field of an interface type are
\* the exported structures, of every loaded package, that satisfy the
\* interface; here, at least those of the packages of the initial load.
C14_ImplementationsOfEveryLoadedPackage ==
  OrderExtracted =>
    \A j \in 1..Len(OrderNode.StructFields) :
      LET v == OrderNode.StructFields[j].ValType
          tp == TypeOf(PkgA, DeclaredField(OrderNode, j).type)
      IN  v.IsIntf =>
            Satisfying(Range(Load(confPkgs).ps), tp.methods)
              \subseteq {<<v.Implementations[i].PkgPath, v.Implementations[i].TypeName>> :
                           i \in 1..Len(v.Implementations)}

\* The implementation nodes of v that are of structure n of package p.
NodesOf(v, p, n) ==
  {i \in 1..Len(v.Implementations) :
     v.Implementations[i].PkgPath = p /\ v.Implementations[i].TypeName = n}

\* C15: for a field of an interface type, every exported structure of the
\* package the resolver is given has one node with the pointer flag clear
\* if its value type satisfies the interface, one with the flag set if only
\* its pointer type does, and none if neither does; there is no other node.
C15_OneNodePerCandidateValueFirst ==
  OrderExtracted =>
    \A j \in 1..Len(OrderNode.StructFields) :
      LET v == OrderNode.StructFields[j].ValType
          ms == TypeOf(PkgA, DeclaredField(OrderNode, j).type).methods
          cands == {d.name : d \in {d \in Range(Decls(PkgA)) :
                                      d.kind = "struct" /\ isNameExported(d.name)}}
      IN  v.IsIntf =>
            /\ \A n \in cands :
                 LET mine == NodesOf(v, PkgA, n)
                     byValue == Implements(PkgA, n, FALSE, ms)
                     byPointer == Implements(PkgA, n, TRUE, ms)
                 IN  /\ Cardinality(mine) <= 1
                     /\ byValue =>
                          \E i \in mine : ~v.Implementations[i].IsPtr
                     /\ (~byValue /\ byPointer) =>
                          \E i \in mine : v.Implementations[i].IsPtr
                     /\ ~byPointer => mine = {}
            /\ \A i \in 1..Len(v.Implementations) :
                 /\ v.Implementations[i].PkgPath = PkgA
                 /\ v.Implementations[i].TypeName \in cands

\* Order is extracted with a field of interface pay: Card, which satisfies
\* it by value, has a node without the pointer flag, Cash, which satisfies
\* it by pointer only, a node with it, and Item, which does not, none.
C15_Witness ==
  /\ OrderExtracted
  /\ Len(OrderNode.StructFields) > 0
  /\ LET v == OrderNode.StructFields[1].ValType
     IN  /\ v.IsIntf
         /\ \E i \in NodesOf(v, PkgA, N_Card) : ~v.Implementations[i].IsPtr
         /\ \E i \in NodesOf(v, PkgA, N_Cash) : v.Implementations[i].IsPtr
         /\ NodesOf(v, PkgA, N_Item) = {}

\* Order is extracted and the propagation pass has not come to it.
OrderJustExtracted ==
  OrderExtracted /\ (pc = "extract" \/ (pc = "propagate" /\ PkgA \in pending))

\* C16: when Order's field is declared as a pointer to a usable type T, the
\* field is usable and its node is the node fillTypeAttr yields for T with
\* the pointer flag set.
C16_PointerIsTheSameNodeFlagged ==
  (OrderJustExtracted /\ orderFields[1].type.kind = "Star") =>
    LET r == fillTypeAttr(PkgA, orderFields[1].type.kids[1], NewTypeAttr, G)
    IN  (r.ok /\ r.err = "") =>
          /\ Len(OrderNode.StructFields) > 0
          /\ OrderNode.StructFields[1].ValType = [r.t EXCEPT !.IsPtr = TRUE]

\* Order is extracted with a usable field declared as a pointer.
C16_Witness ==
  /\ OrderJustExtracted
  /\ orderFields[1].type.kind = "Star"
  /\ Len(OrderNode.StructFields) > 0
  /\ OrderNode.StructFields[1].ValType.IsPtr
  /\ ~fillTypeAttr(PkgA, orderFields[1].type.kids[1], NewTypeAttr, G).t.IsPtr

\* The number of parameters (or results) a field list declares: one for
\* each name, one for a field without a name.
RECURSIVE DeclaredArity(_)
DeclaredArity(fields) ==
  IF Len(fields) = 0 THEN 0
  ELSE (IF Len(Head(fields).names) = 0 THEN 1 ELSE Len(Head(fields).names))
       + DeclaredArity(Tail(fields))

\* C17: the node of a field of a function type has one parameter child for
\* each declared parameter and one result child for each declared result,
\* also when several names are declared with one type.
C17_FunctionChildrenMatchDeclaredArity ==
  OrderExtracted =>
    \A j \in 1..Len(OrderNode.StructFields) :
      LET v == OrderNode.StructFields[j].ValType
          e == DeclaredField(OrderNode, j).type
      IN  e.kind = "Func" =>
            /\ v.IsFunc
            /\ Len(v.FuncParamTypes) = DeclaredArity(e.params)
            /\ Len(v.FuncResultTypes) = DeclaredArity(e.results)

\* The shape invariant of a node.
WellShaped(n) ==
  /\ Cardinality({f \in {"slice", "map", "func"} :
                    \/ f = "slice" /\ n.IsSlice
                    \/ f = "map" /\ n.IsMap
                    \/ f = "func" /\ n.IsFunc}) <= 1
  /\ (Len(n.SliceValType) = 1) = n.IsSlice
  /\ (Len(n.MapKeyType) = 1) = n.IsMap
  /\ (Len(n.MapValType) = 1) = n.IsMap
  /\ (Len(n.FuncParamTypes) > 0 \/ Len(n.FuncResultTypes) > 0) => n.IsFunc
  /\ (~n.IsSlice /\ ~n.IsMap /\ ~n.IsFunc) => n.TypeName # <<>>

\* C18: every node of a field that was extracted as usable has the shape
\* its flags imply, and a node without a shape flag has a type name.
C18_UsableNodesAreWellShaped ==
  OrderExtracted =>
    \A j \in 1..Len(OrderNode.StructFields) :
      \A n \in Nodes(OrderNode.StructFields[j].ValType) : WellShaped(n)

\* The extraction loop has been through every structure of the initial load.
ExtractionIsOver ==
  /\ nextStruct > Len(exportedStructs)
  /\ GenerationSet = InitialStructs

\* The propagation pass has been through structure s.
Propagated(s) == s.HasBuilder /\ s = fillHasBuilder(s, toGenerate)

\* C19: a HasBuilder flag is set only when the extraction of every
\* structure is over, and an import table, a rendered unit or a file exists
\* only when the propagation pass has been through every structure.
C19_PhasesInOrder ==
  /\ (\E s \in Roots : \E n \in Nodes(s) : n.HasBuilder) => ExtractionIsOver
  /\ (pkgKeys # EmptyMap \/ DOMAIN rendered # {} \/ DOMAIN files # {}) =>
       ExtractionIsOver /\ \A s \in Roots : Propagated(s)

\* The propagation pass is under way on two packages, one done and one to
\* do, and nothing is emitted.
C19_Witness ==
  /\ pc = "propagate"
  /\ Cardinality(DOMAIN toGenerate) = 2
  /\ Cardinality(pending) = 1
  /\ \E s \in Roots : s.HasBuilder
  /\ \E s \in Roots : ~s.HasBuilder
  /\ DOMAIN files = {}

\* The children of node t, in fillHasBuilder's order.
Kids(t) ==
  t.MapKeyType \o t.MapValType \o t.SliceValType \o t.FuncParamTypes
    \o t.FuncResultTypes
    \o [i \in 1..Len(t.StructFields) |-> t.StructFields[i].ValType]
    \o t.Implementations

\* Node t with every HasBuilder flag of its tree cleared.
RECURSIVE Strip(_)
Strip(t) ==
  LET Each(ts) == [i \in 1..Len(ts) |-> Strip(ts[i])]
  IN  [t EXCEPT
         !.HasBuilder = FALSE,
         !.MapKeyType = Each(@),
         !.MapValType = Each(@),
         !.SliceValType = Each(@),
         !.FuncParamTypes = Each(@),
         !.FuncResultTypes = Each(@),
         !.StructFields = [i \in 1..Len(@) |-> [@[i] EXCEPT !.ValType = Strip(@)]],
         !.Implementations = Each(@)]

\* Every HasBuilder flag set in the tree of a is set in the tree of b, for
\* trees of one shape.
RECURSIVE FlagsKept(_, _)
FlagsKept(a, b) ==
  /\ a.HasBuilder => b.HasBuilder
  /\ \A i \in 1..Len(Kids(a)) : FlagsKept(Kids(a)[i], Kids(b)[i])

\* A step of the propagation pass changes HasBuilder flags only, from
\* false to true.
PropagationFrame ==
  pc = "propagate" =>
    /\ DOMAIN toGenerate' = DOMAIN toGenerate
    /\ \A k \in DOMAIN toGenerate :
         /\ Len(toGenerate'[k]) = Len(toGenerate[k])
         /\ \A i \in 1..Len(toGenerate[k]) :
              /\ Strip(toGenerate'[k][i]) = Strip(toGenerate[k][i])
              /\ FlagsKept(toGenerate[k][i], toGenerate'[k][i])

\* A step of the emission loop, and a step after it within the run, leaves
\* the forest as it is.
EmissionFrame ==
  (pc = "emit" \/ (pc = "done" /\ pc' = "done")) => toGenerate' = toGenerate

\* C20: the propagation pass changes nothing in the forest but HasBuilder
\* flags, from false to true, and import reconciliation and emission change
\* nothing in it.
C20_ForestFrame == [][PropagationFrame /\ EmissionFrame]_vars

\* The propagation pass has set a flag and the emission loop has rendered
\* a unit.
C20_Witness ==
  /\ pc \in {"emit", "done"}
  /\ DOMAIN rendered # {}
  /\ \E s \in Roots : \E n \in Nodes(s) : n.HasBuilder /\ n # s

(***************************************************************************)
(* Field declarations of every form.                                       *)
(***************************************************************************)
\* The i-th field declaration of Order.  It carries an exported name
\* followed by an unexported one, an unexported name, or a name that starts
\* with a lower-case or with an upper-case letter beyond ASCII, and its type
\* is an unexported type, a structure, or a pointer to, a slice of or a map
\* to that structure; or it is embedded, and then its type is a type name or
\* a pointer to one.
FieldDecls(i) ==
  LET lower == <<"f">> \o FormatInt(i)
      names == { <<FieldName(i), lower>>, <<lower>>,
                 <<LowerEAcute \o FormatInt(i)>>,
                 <<UpperEAcute \o FormatInt(i)>> }
      embeddable == { Ident(N_hid), Ident(N_Item), Star(Ident(N_Item)) }
      types == embeddable
                 \cup { Array(Ident(N_Item)), Map(T_string, Ident(N_Item)) }
  IN  {Field(ns, t) : ns \in names, t \in types}
        \cup {Field(<<>>, t) : t \in embeddable}

\* The field lists of up to MaxFields declarations in which no two embedded
\* fields have the same name, which is that of their type.
DeclFieldLists ==
  LET name(e) == IF e.kind = "Star" THEN e.kids[1].name ELSE e.name
  IN  UNION {{fl \in {[i \in 1..n |-> c[i]] :
                       c \in [1..n -> UNION {FieldDecls(i) : i \in 1..n}]} :
                /\ \A i \in 1..n : fl[i] \in FieldDecls(i)
                /\ \A i, j \in 1..n :
                     (i # j /\ fl[i].names = <<>> /\ fl[j].names = <<>>)
                       => name(fl[i].type) # name(fl[j].type)} :
             n \in 0..MaxFields}

InitFields ==
  /\ confPkgs = <<PkgA>>
  /\ orderFields \in DeclFieldLists
  /\ pc = "load"
  /\ err = ""
  /\ pkgs = <<>>
  /\ loadedPkgs = {}
  /\ loadCalls = <<>>
  /\ exportedStructs = <<>>
  /\ nextStruct = 1
  /\ toGenerate = EmptyMap
  /\ pending = {}
  /\ pkgKeys = EmptyMap
  /\ files = EmptyMap
  /\ rendered = EmptyMap
  /\ run = 1
  /\ prevFiles = EmptyMap
  /\ bld = <<>>
  /\ neededPkgs = {}
  /\ variant = "part_000"

SpecFields == InitFields /\ [][Next]_vars

(***************************************************************************)
(* The single-file command-line variant (main.go): the definitions named   *)
(* cli_ are its functions, its package globals and the steps of its main.  *)
(***************************************************************************)
\* &typeAttr{} of the variant.
cli_NewTypeAttr ==
  [TypeName |-> <<>>, PkgPath |-> <<>>,
   IsPtr |-> FALSE, IsSlice |-> FALSE, IsMap |-> FALSE, IsStruct |-> FALSE,
   IsFunc |-> FALSE,
   SliceValType |-> <<>>, MapKeyType |-> <<>>, MapValType |-> <<>>,
   FuncParamTypes |-> <<>>, FuncResultTypes |-> <<>>, StructFields |-> <<>>]

\* loadPkgs on the globals g, which also record whether die has ended the
\* process.
cli_loadPkgs(path, g) ==
  LET r == Load(path)
      g1 == [g EXCEPT !.loadCalls = Append(@, path)]
  IN  IF r.err # "" THEN [g1 EXCEPT !.died = TRUE] ELSE addLoaded(r.ps, g1)

\* fillTypeAttr after its switch: the resolved type of the expression.  The
\* result is the boolean returned, the node and the globals.
cli_fillNamed(pkg, tExpr, tAttr, g) ==
  LET tp == TypeOf(pkg, tExpr)
      t1 == [tAttr EXCEPT !.TypeName = tp.name]
      t2 == [t1 EXCEPT !.PkgPath = tp.pkg]
  IN  IF ~tp.named THEN [ok |-> TRUE, t |-> tAttr, g |-> g]
      ELSE IF ~isNameExported(tp.name) THEN [ok |-> FALSE, t |-> t1, g |-> g]
      ELSE IF tp.pkg = <<>> THEN [ok |-> TRUE, t |-> t1, g |-> g]
      ELSE IF isInternalPkg(tp.pkg) THEN [ok |-> FALSE, t |-> t2, g |-> g]
      ELSE IF tp.pkg \notin g.loadedPkgs
        THEN Let(cli_loadPkgs(<<tp.pkg>>, g),
                 LAMBDA g1 : [ok |-> ~g1.died, t |-> t2, g |-> g1])
      ELSE [ok |-> TRUE, t |-> t2, g |-> g]

RECURSIVE cli_fillTypeAttr(_, _, _, _)

\* The loops of the FuncType case over t.Params.List and t.Results.List.
RECURSIVE cli_fillFuncTypes(_, _, _, _)
cli_fillFuncTypes(pkg, fields, acc, g) ==
  IF Len(fields) = 0 THEN [ok |-> TRUE, ts |-> acc, g |-> g]
  ELSE
    Let(cli_fillTypeAttr(pkg, Head(fields).type, cli_NewTypeAttr, g),
        LAMBDA r :
          IF ~r.ok THEN [ok |-> FALSE, ts |-> acc, g |-> r.g]
          ELSE cli_fillFuncTypes(pkg, Tail(fields), Append(acc, r.t), r.g))

cli_fillTypeAttr(pkg, tExpr, tAttr, g) ==
  CASE tExpr.kind = "Ident" ->
         cli_fillNamed(pkg, tExpr, [tAttr EXCEPT !.TypeName = tExpr.name], g)
    [] tExpr.kind = "Star" ->
         Let(cli_fillTypeAttr(pkg, tExpr.kids[1],
                              [tAttr EXCEPT !.IsPtr = TRUE], g),
             LAMBDA r :
               IF ~r.ok THEN r ELSE cli_fillNamed(pkg, tExpr, r.t, r.g))
    [] tExpr.kind = "Array" ->
         Let(cli_fillTypeAttr(pkg, tExpr.kids[1], cli_NewTypeAttr, g),
             LAMBDA r :
               Let([tAttr EXCEPT !.IsSlice = TRUE, !.SliceValType = <<r.t>>],
                   LAMBDA t :
                     IF ~r.ok THEN [ok |-> FALSE, t |-> t, g |-> r.g]
                     ELSE cli_fillNamed(pkg, tExpr, t, r.g)))
    [] tExpr.kind = "Map" ->
         Let(cli_fillTypeAttr(pkg, tExpr.kids[1], cli_NewTypeAttr, g),
             LAMBDA k :
               IF ~k.ok
               THEN [ok |-> FALSE,
                     t |-> [tAttr EXCEPT !.IsMap = TRUE,
                                         !.MapKeyType = <<k.t>>,
                                         !.MapValType = <<cli_NewTypeAttr>>],
                     g |-> k.g]
               ELSE
                 Let(cli_fillTypeAttr(pkg, tExpr.kids[2], cli_NewTypeAttr, k.g),
                     LAMBDA v :
                       Let([tAttr EXCEPT !.IsMap = TRUE,
                                         !.MapKeyType = <<k.t>>,
                                         !.MapValType = <<v.t>>],
                           LAMBDA t :
                             IF ~v.ok THEN [ok |-> FALSE, t |-> t, g |-> v.g]
                             ELSE cli_fillNamed(pkg, tExpr, t, v.g))))
    [] tExpr.kind = "Func" ->
         Let(cli_fillFuncTypes(pkg, tExpr.params, <<>>, g),
             LAMBDA ps :
               IF ~ps.ok
               THEN [ok |-> FALSE,
                     t |-> [tAttr EXCEPT !.IsFunc = TRUE,
                                         !.FuncParamTypes = ps.ts],
                     g |-> ps.g]
               ELSE
                 Let(cli_fillFuncTypes(pkg, tExpr.results, <<>>, ps.g),
                     LAMBDA rs :
                       Let([tAttr EXCEPT !.IsFunc = TRUE,
                                         !.FuncParamTypes = ps.ts,
                                         !.FuncResultTypes = rs.ts],
                           LAMBDA t :
                             IF ~rs.ok THEN [ok |-> FALSE, t |-> t, g |-> rs.g]
                             ELSE cli_fillNamed(pkg, tExpr, t, rs.g))))
    [] OTHER -> cli_fillNamed(pkg, tExpr, tAttr, g)

\* fillStructAttr over the fields of st.Fields.List that are left: an
\* unusable field is skipped; a usable one adds a field attribute for an
\* embedded field, else one for each exported name, and the package of its
\* type is recorded in neededPkgs with every attribute added.
RECURSIVE cli_fillStructAttr(_, _, _, _)
cli_fillStructAttr(pkg, fields, sAttr, g) ==
  IF Len(fields) = 0 \/ g.died THEN [s |-> sAttr, g |-> g]
  ELSE
    Let(cli_fillTypeAttr(pkg, Head(fields).type, cli_NewTypeAttr, g),
        LAMBDA r :
          IF ~r.ok THEN cli_fillStructAttr(pkg, Tail(fields), sAttr, r.g)
          ELSE
            Let(IF Len(Head(fields).names) = 0 THEN <<r.t.TypeName>>
                ELSE SelectSeq(Head(fields).names, isNameExported),
                LAMBDA ns :
                  cli_fillStructAttr(
                    pkg, Tail(fields),
                    [sAttr EXCEPT !.StructFields =
                       @ \o [i \in 1..Len(ns) |->
                               [StructName |-> sAttr.TypeName,
                                FieldName |-> ns[i], ValType |-> r.t]]],
                    IF Len(ns) > 0 /\ r.t.PkgPath # <<>>
                    THEN [r.g EXCEPT !.neededPkgs = @ \cup {r.t.PkgPath}]
                    ELSE r.g)))

\* collectImports: m groups the needed identifiers by final path segment;
\* the groups are ranged over in order o[1] and group k in order o[2][k].
cli_collectImports(o) == aliasGroups(EmptyMap, o[1], o[2])

\* The orders collectImports may range over m and over each of its groups.
cli_ImportOrders(needed) ==
  LET m == [key \in {pkgNameFromPath(v) : v \in needed} |->
              {v \in needed : pkgNameFromPath(v) = key}]
  IN  Orders(DOMAIN m)
        \X {f \in [DOMAIN m -> UNION {Orders(m[k]) : k \in DOMAIN m}] :
              \A k \in DOMAIN m : Range(f[k]) = m[k]}

\* (t *typeAttr) String(), under the alias table pk.
RECURSIVE cli_String(_, _)
cli_String(t, pk) ==
  LET s == IF t.IsPtr THEN <<"*">> ELSE <<>>
      Each(ts) == [i \in 1..Len(ts) |-> cli_String(ts[i], pk)]
  IN  IF t.IsSlice THEN s \o <<"[", "]">> \o cli_String(t.SliceValType[1], pk)
      ELSE IF t.IsMap THEN
        s \o S_map \o cli_String(t.MapKeyType[1], pk) \o <<"]">>
          \o cli_String(t.MapValType[1], pk)
      ELSE IF t.IsFunc THEN
        s \o S_func \o Join(Each(t.FuncParamTypes), <<",">>) \o <<")">>
          \o <<"(">> \o Join(Each(t.FuncResultTypes), <<",">>) \o <<")">>
      ELSE
        s \o (IF t.PkgPath # <<>> /\ t.PkgPath \in DOMAIN pk
              THEN pk[t.PkgPath] \o <<".">> ELSE <<>>)
          \o t.TypeName

\* (t *typeAttr) InitString()
cli_InitString(t, pk) ==
  IF ~t.IsSlice /\ ~t.IsMap THEN <<>>
  ELSE (IF t.IsPtr THEN <<"&">> \o Tail(cli_String(t, pk))
        ELSE cli_String(t, pk))
       \o <<"{", "}">>

\* The setters main renders for one field of a structure: withFuncTmpltStr,
\* then addFuncTmpltStr for a slice or putFuncTmpltStr for a map, each kept
\* as its kind, the builder it is a method of, the field it assigns and its
\* parameter types.
cli_fieldSetters(sf, pk) ==
  LET St(kind, params) ==
        [Kind |-> kind, StructName |-> sf.StructName,
         FieldName |-> sf.FieldName, Params |-> params]
  IN  <<St("With", <<cli_String(sf.ValType, pk)>>)>>
        \o (IF sf.ValType.IsSlice
            THEN <<St("Add", <<cli_String(sf.ValType.SliceValType[1], pk)>>)>>
            ELSE IF sf.ValType.IsMap
            THEN <<St("Put", <<cli_String(sf.ValType.MapKeyType[1], pk),
                               cli_String(sf.ValType.MapValType[1], pk)>>)>>
            ELSE <<>>)

\* builderTmpltStr executed on s, with the template function qualifiedName,
\* followed by the setters of its fields.
cli_builder(s, pk) ==
  LET inits == SelectSeq(s.StructFields,
                         LAMBDA f : f.ValType.IsSlice \/ f.ValType.IsMap)
  IN  [TypeName |-> s.TypeName,
       Target |-> IF s.PkgPath \in DOMAIN pk
                  THEN pk[s.PkgPath] \o <<".">> \o s.TypeName
                  ELSE s.TypeName,
       Inits |-> [i \in 1..Len(inits) |->
                    [FieldName |-> inits[i].FieldName,
                     Init |-> cli_InitString(inits[i].ValType, pk)]],
       Setters |-> Flatten([i \in 1..Len(s.StructFields) |->
                              cli_fieldSetters(s.StructFields[i], pk)])]

InitCli ==
  /\ confPkgs \in {<<PkgA>>, <<PkgA, PkgB>>, <<PkgA, PkgBad>>}
  /\ orderFields \in ProbeFieldLists
  /\ pc = "load"
  /\ err = ""
  /\ pkgs = <<>>
  /\ loadedPkgs = {}
  /\ loadCalls = <<>>
  /\ exportedStructs = <<>>
  /\ nextStruct = 1
  /\ toGenerate = <<>>
  /\ pending = {}
  /\ pkgKeys = EmptyMap
  /\ files = EmptyMap
  /\ rendered = EmptyMap
  /\ run = 1
  /\ prevFiles = EmptyMap
  /\ bld = <<>>
  /\ neededPkgs = {}
  /\ variant = "main.go"

\* main up to its extraction loop: the load of the target packages and the
\* discovery.
CliLoad ==
  /\ pc = "load"
  /\ \E g \in {cli_loadPkgs(confPkgs,
                 [pkgs |-> pkgs, loadedPkgs |-> loadedPkgs,
                  loadCalls |-> loadCalls, neededPkgs |-> neededPkgs,
                  died |-> FALSE])} :
       /\ pkgs' = g.pkgs
       /\ loadedPkgs' = g.loadedPkgs
       /\ loadCalls' = g.loadCalls
       /\ IF g.died
          THEN /\ pc' = "failed"
               /\ err' = "load"
               /\ exportedStructs' = exportedStructs
          ELSE /\ pc' = IF Len(findExportedStructs(g.pkgs)) = 0
                        THEN "emit" ELSE "extract"
               /\ err' = err
               /\ exportedStructs' = findExportedStructs(g.pkgs)
  /\ UNCHANGED <<variant, neededPkgs, confPkgs, orderFields, nextStruct, toGenerate,
                 pending, pkgKeys, files, rendered, run, prevFiles, bld>>

\* One iteration of main's loop over exportedStructs.
CliExtract ==
  /\ pc = "extract"
  /\ LET es == exportedStructs[nextStruct]
         sAttr == [cli_NewTypeAttr EXCEPT !.TypeName = es.StructName,
                                          !.PkgPath = es.Pkg,
                                          !.IsStruct = TRUE]
     IN
     \E r \in {cli_fillStructAttr(es.Pkg, es.TypeSpec.params, sAttr,
                 [pkgs |-> pkgs, loadedPkgs |-> loadedPkgs,
                  loadCalls |-> loadCalls,
                  neededPkgs |-> neededPkgs \cup {es.Pkg},
                  died |-> FALSE])} :
         /\ pkgs' = r.g.pkgs
         /\ loadedPkgs' = r.g.loadedPkgs
         /\ loadCalls' = r.g.loadCalls
         /\ neededPkgs' = r.g.neededPkgs
         /\ toGenerate' = Append(toGenerate, r.s)
         /\ nextStruct' = nextStruct + 1
         /\ IF r.g.died THEN pc' = "failed" /\ err' = "load"
            ELSE IF nextStruct = Len(exportedStructs)
            THEN pc' = "emit" /\ err' = err
            ELSE pc' = pc /\ err' = err
  /\ UNCHANGED <<variant, confPkgs, orderFields, exportedStructs, pending,
                 pkgKeys, files, rendered, run, prevFiles, bld>>

\* main after its extraction loop: the import table, the alias table, the
\* rendering of the preamble, the builders and the setters, and the output
\* file of the -out flag, a file of directory out.
CliEmit ==
  /\ pc = "emit"
  /\ \E o \in cli_ImportOrders(neededPkgs) :
     \E imports \in {cli_collectImports(o)} :
     \E pk \in {invertImports(imports)} :
     \E buff \in {[OutPkgName |-> OutPkg, Imports |-> imports,
                   Builders |-> [i \in 1..Len(toGenerate) |->
                                   cli_builder(toGenerate[i], pk)]]} :
       /\ pkgKeys' = pk
       /\ rendered' = buff
       /\ files' = Put(files, OutPkg \o <<"/", "a", "p", "i", ".", "g", "o">>,
                       buff)
  /\ pc' = "done"
  /\ UNCHANGED <<variant, neededPkgs, confPkgs, orderFields, err, pkgs, loadedPkgs,
                 loadCalls, exportedStructs, nextStruct, toGenerate, pending,
                 run, prevFiles, bld>>

NextCli ==
  \/ CliLoad
  \/ CliExtract
  \/ CliEmit

SpecCli == InitCli /\ [][NextCli]_vars

(***************************************************************************)
(* The single-structure variants, up to the print of the forest of the     *)
(* target structure that follows its extraction.  The definitions named    *)
(* p1_ are functions of part_001, those named p2_ of part_002.  Their      *)
(* fillTypeAttr and fillStructAttr call each other; d is the number of     *)
(* fillStructAttr activations the goroutine's stack still has room for,    *)
(* and a call with none left is the runtime's fatal stack overflow (over). *)
(***************************************************************************)
\* The activations of fillStructAttr the stack has room for.
MaxStack == 4

\* findStruct(pkgs, structName): the first type spec of that name.
single_findStruct(ps, structName) ==
  LET hit == {i \in 1..Len(ps) : HasDecl(ps[i], structName)}
  IN  IF hit = {} THEN [found |-> FALSE, pkg |-> <<>>, ts |-> <<>>]
      ELSE LET i == CHOOSE i \in hit : \A j \in hit : i <= j
           IN  [found |-> TRUE, pkg |-> ps[i],
                ts |-> DeclOf(ps[i], structName)]

\* &typeAttr{} of part_001.
p1_NewTypeAttr ==
  [Name |-> <<>>, IsPtr |-> FALSE, IsSlice |-> FALSE, IsMap |-> FALSE,
   IsStruct |-> FALSE, SliceValType |-> <<>>, MapKeyType |-> <<>>,
   MapValType |-> <<>>, StructAttr |-> <<>>]

RECURSIVE p1_fillTypeAttr(_, _, _, _, _)

\* fillStructAttr of part_001 over the fields of st.Fields.List that are
\* left: every field adds a field attribute for each of its names, or one
\* named as its type when it is embedded.  The result is the structAttr and
\* whether the stack overflowed.
RECURSIVE p1_fillStructAttr(_, _, _, _, _)
p1_fillStructAttr(ps, pkg, fields, sAttr, d) ==
  IF Len(fields) = 0 THEN [t |-> sAttr, over |-> FALSE]
  ELSE
    Let(p1_fillTypeAttr(ps, pkg, Head(fields).type, p1_NewTypeAttr, d),
        LAMBDA r :
          IF r.over THEN [t |-> sAttr, over |-> TRUE]
          ELSE
            Let(IF Len(Head(fields).names) = 0 THEN <<r.t.Name>>
                ELSE Head(fields).names,
                LAMBDA ns :
                  p1_fillStructAttr(
                    ps, pkg, Tail(fields),
                    [sAttr EXCEPT !.Fields =
                       @ \o [i \in 1..Len(ns) |->
                               [FieldName |-> ns[i], ValType |-> r.t]]],
                    d)))

\* fillTypeAttr of part_001 after its switch: a named structure type is
\* looked up by name and fillStructAttr is called on its declaration, which
\* takes one more activation of the d the stack has room for.
p1_fillNamed(ps, pkg, tExpr, tAttr, d) ==
  LET tp == TypeOf(pkg, tExpr)
      fs == single_findStruct(ps, tp.name)
      t1 == [tAttr EXCEPT !.IsStruct = TRUE,
                          !.StructAttr = <<[Name |-> tp.name, Fields |-> <<>>]>>]
  IN  IF ~tp.named \/ tp.under # "struct" THEN [t |-> tAttr, over |-> FALSE]
      ELSE IF ~fs.found THEN [t |-> t1, over |-> FALSE]
      ELSE IF d = 0 THEN [t |-> t1, over |-> TRUE]
      ELSE Let(p1_fillStructAttr(ps, fs.pkg, fs.ts.fields,
                                 t1.StructAttr[1], d - 1),
               LAMBDA r :
                 [t |-> [t1 EXCEPT !.StructAttr = <<r.t>>], over |-> r.over])

\* fillTypeAttr of part_001: the switch, each case followed by the lookup
\* of the expression's own type.
p1_fillTypeAttr(ps, pkg, tExpr, tAttr, d) ==
  CASE tExpr.kind = "Ident" ->
         p1_fillNamed(ps, pkg, tExpr, [tAttr EXCEPT !.Name = tExpr.name], d)
    [] tExpr.kind = "Star" ->
         Let(p1_fillTypeAttr(ps, pkg, tExpr.kids[1],
                             [tAttr EXCEPT !.IsPtr = TRUE], d),
             LAMBDA r :
               IF r.over THEN r ELSE p1_fillNamed(ps, pkg, tExpr, r.t, d))
    [] tExpr.kind = "Array" ->
         Let(p1_fillTypeAttr(ps, pkg, tExpr.kids[1], p1_NewTypeAttr, d),
             LAMBDA r :
               Let([tAttr EXCEPT !.IsSlice = TRUE, !.SliceValType = <<r.t>>],
                   LAMBDA t :
                     IF r.over THEN [t |-> t, over |-> TRUE]
                     ELSE p1_fillNamed(ps, pkg, tExpr, t, d)))
    [] tExpr.kind = "Map" ->
         Let(p1_fillTypeAttr(ps, pkg, tExpr.kids[1], p1_NewTypeAttr, d),
             LAMBDA k :
               IF k.over
               THEN [t |-> [tAttr EXCEPT !.IsMap = TRUE,
                                         !.MapKeyType = <<k.t>>,
                                         !.MapValType = <<p1_NewTypeAttr>>],
                     over |-> TRUE]
               ELSE
                 Let(p1_fillTypeAttr(ps, pkg, tExpr.kids[2], p1_NewTypeAttr, d),
                     LAMBDA v :
                       Let([tAttr EXCEPT !.IsMap = TRUE,
                                         !.MapKeyType = <<k.t>>,
                                         !.MapValType = <<v.t>>],
                           LAMBDA t :
                             IF v.over THEN [t |-> t, over |-> TRUE]
                             ELSE p1_fillNamed(ps, pkg, tExpr, t, d))))
    [] OTHER -> p1_fillNamed(ps, pkg, tExpr, tAttr, d)

\* &typeAttr{} of part_002.
p2_NewTypeAttr ==
  [TypeName |-> <<>>, PkgPath |-> <<>>,
   IsPtr |-> FALSE, IsSlice |-> FALSE, IsMap |-> FALSE, IsStruct |-> FALSE,
   IsFunc |-> FALSE,
   SliceValType |-> <<>>, MapKeyType |-> <<>>, MapValType |-> <<>>,
   FuncParamTypes |-> <<>>, FuncResultTypes |-> <<>>, StructFields |-> <<>>]

RECURSIVE p2_fillTypeAttr(_, _, _, _, _)

\* fillStructAttr of part_002 over the fields of st.Fields.List that are
\* left.
RECURSIVE p2_fillStructAttr(_, _, _, _, _)
p2_fillStructAttr(ps, pkg, fields, sAttr, d) ==
  IF Len(fields) = 0 THEN [t |-> sAttr, over |-> FALSE]
  ELSE
    Let(p2_fillTypeAttr(ps, pkg, Head(fields).type, p2_NewTypeAttr, d),
        LAMBDA r :
          IF r.over THEN [t |-> sAttr, over |-> TRUE]
          ELSE
            Let(IF Len(Head(fields).names) = 0 THEN <<r.t.TypeName>>
                ELSE Head(fields).names,
                LAMBDA ns :
                  p2_fillStructAttr(
                    ps, pkg, Tail(fields),
                    [sAttr EXCEPT !.StructFields =
                       @ \o [i \in 1..Len(ns) |->
                               [StructName |-> sAttr.TypeName,
                                FieldName |-> ns[i], ValType |-> r.t]]],
                    d)))

\* fillTypeAttr of part_002 after its switch.
p2_fillNamed(ps, pkg, tExpr, tAttr, d) ==
  LET tp == TypeOf(pkg, tExpr)
      fs == single_findStruct(ps, tp.name)
      t1 == [tAttr EXCEPT !.IsStruct = TRUE]
      t2 == [t1 EXCEPT !.TypeName = tp.name, !.PkgPath = fs.pkg,
                       !.StructFields = <<>>]
  IN  IF ~tp.named \/ tp.under # "struct" THEN [t |-> tAttr, over |-> FALSE]
      ELSE IF ~fs.found THEN [t |-> t1, over |-> FALSE]
      ELSE IF d = 0 THEN [t |-> t2, over |-> TRUE]
      ELSE p2_fillStructAttr(ps, fs.pkg, fs.ts.fields, t2, d - 1)

\* The loops of the FuncType case over t.Params.List and t.Results.List.
RECURSIVE p2_fillFuncTypes(_, _, _, _, _)
p2_fillFuncTypes(ps, pkg, fields, acc, d) ==
  IF Len(fields) = 0 THEN [ts |-> acc, over |-> FALSE]
  ELSE
    Let(p2_fillTypeAttr(ps, pkg, Head(fields).type, p2_NewTypeAttr, d),
        LAMBDA r :
          IF r.over THEN [ts |-> acc, over |-> TRUE]
          ELSE p2_fillFuncTypes(ps, pkg, Tail(fields), Append(acc, r.t), d))

\* fillTypeAttr of part_002.
p2_fillTypeAttr(ps, pkg, tExpr, tAttr, d) ==
  CASE tExpr.kind = "Ident" ->
         p2_fillNamed(ps, pkg, tExpr, [tAttr EXCEPT !.TypeName = tExpr.name], d)
    [] tExpr.kind = "Star" ->
         Let(p2_fillTypeAttr(ps, pkg, tExpr.kids[1],
                             [tAttr EXCEPT !.IsPtr = TRUE], d),
             LAMBDA r :
               IF r.over THEN r ELSE p2_fillNamed(ps, pkg, tExpr, r.t, d))
    [] tExpr.kind = "Array" ->
         Let(p2_fillTypeAttr(ps, pkg, tExpr.kids[1], p2_NewTypeAttr, d),
             LAMBDA r :
               Let([tAttr EXCEPT !.IsSlice = TRUE, !.SliceValType = <<r.t>>],
                   LAMBDA t :
                     IF r.over THEN [t |-> t, over |-> TRUE]
                     ELSE p2_fillNamed(ps, pkg, tExpr, t, d)))
    [] tExpr.kind = "Map" ->
         Let(p2_fillTypeAttr(ps, pkg, tExpr.kids[1], p2_NewTypeAttr, d),
             LAMBDA k :
               IF k.over
               THEN [t |-> [tAttr EXCEPT !.IsMap = TRUE,
                                         !.MapKeyType = <<k.t>>,
                                         !.MapValType = <<p2_NewTypeAttr>>],
                     over |-> TRUE]
               ELSE
                 Let(p2_fillTypeAttr(ps, pkg, tExpr.kids[2], p2_NewTypeAttr, d),
                     LAMBDA v :
                       Let([tAttr EXCEPT !.IsMap = TRUE,
                                         !.MapKeyType = <<k.t>>,
                                         !.MapValType = <<v.t>>],
                           LAMBDA t :
                             IF v.over THEN [t |-> t, over |-> TRUE]
                             ELSE p2_fillNamed(ps, pkg, tExpr, t, d))))
    [] tExpr.kind = "Func" ->
         Let(p2_fillFuncTypes(ps, pkg, tExpr.params, <<>>, d),
             LAMBDA a :
               IF a.over
               THEN [t |-> [tAttr EXCEPT !.IsFunc = TRUE,
                                         !.FuncParamTypes = a.ts],
                     over |-> TRUE]
               ELSE
                 Let(p2_fillFuncTypes(ps, pkg, tExpr.results, <<>>, d),
                     LAMBDA b :
                       Let([tAttr EXCEPT !.IsFunc = TRUE,
                                         !.FuncParamTypes = a.ts,
                                         !.FuncResultTypes = b.ts],
                           LAMBDA t :
                             IF b.over THEN [t |-> t, over |-> TRUE]
                             ELSE p2_fillNamed(ps, pkg, tExpr, t, d))))
    [] OTHER -> p2_fillNamed(ps, pkg, tExpr, tAttr, d)

\* The field lists of the target structure Ord of package r/m, of up to
\* MaxFields fields.  A field's type is a plain type, one of the structures
\* Item, Box (which holds an Item) and Peer (which holds a pointer to Ord),
\* a structure of another package, or Ord, Item or Peer behind a pointer, as
\* a slice element, as a map value or as a function parameter.
RingFieldLists ==
  LET types ==
        {T_string, Ident(N_Item), Ident(N_Box), Ident(N_Peer), Sel(PkgB, N_Ext)}
          \cup UNION {{Star(x), Array(x), Map(T_string, x),
                       Func(<<Field(<<<<"a">>>>, x)>>, <<>>)} :
                      x \in {Ident(N_Order), Ident(N_Item), Ident(N_Peer)}}
  IN  UNION {{[i \in 1..n |-> Field(<<FieldName(i)>>, c[i])] :
                c \in [1..n -> types]} : n \in 0..MaxFields}

InitSingle ==
  /\ variant \in {"part_001", "part_002"}
  /\ confPkgs \in {<<PkgRing>>, <<PkgBad>>}
  /\ orderFields \in
       IF confPkgs = <<PkgRing>> THEN RingFieldLists ELSE {<<>>}
  /\ pc = "load"
  /\ err = ""
  /\ pkgs = <<>>
  /\ loadedPkgs = {}
  /\ loadCalls = <<>>
  /\ exportedStructs = <<>>
  /\ nextStruct = 1
  /\ toGenerate = <<>>
  /\ pending = {}
  /\ pkgKeys = EmptyMap
  /\ files = EmptyMap
  /\ rendered = EmptyMap
  /\ run = 1
  /\ prevFiles = EmptyMap
  /\ bld = <<>>
  /\ neededPkgs = {}

\* main up to fillStructAttr: the load of -inPkg and the search for the
\* structure -structName (Ord), which die ends when either fails.
SingleLoad ==
  /\ pc = "load"
  /\ loadCalls' = Append(loadCalls, confPkgs)
  /\ LET r == Load(confPkgs)
         fs == single_findStruct(r.ps, N_Order)
     IN  IF r.err # "" \/ ~fs.found \/ fs.ts.kind # "struct"
         THEN /\ pc' = "failed"
              /\ err' = IF r.err # "" THEN r.err ELSE "struct"
              /\ pkgs' = pkgs
         ELSE /\ pc' = "extract"
              /\ err' = err
              /\ pkgs' = r.ps
  /\ UNCHANGED <<variant, neededPkgs, confPkgs, orderFields, loadedPkgs,
                 exportedStructs, nextStruct, toGenerate, pending, pkgKeys,
                 files, rendered, run, prevFiles, bld>>

\* main's call of fillStructAttr on the target, and the print of the forest
\* that follows it; a stack overflow ends the process inside the call.
SingleExtract ==
  /\ pc = "extract"
  /\ LET fs == single_findStruct(pkgs, N_Order)
     IN
     \E r \in {IF variant = "part_001"
               THEN p1_fillStructAttr(pkgs, fs.pkg, fs.ts.fields,
                                      [Name |-> N_Order, Fields |-> <<>>],
                                      MaxStack - 1)
               ELSE p2_fillStructAttr(pkgs, fs.pkg, fs.ts.fields,
                      [p2_NewTypeAttr EXCEPT !.TypeName = N_Order,
                                             !.PkgPath = fs.pkg,
                                             !.IsStruct = TRUE],
                      MaxStack - 1)} :
       IF r.over
       THEN /\ pc' = "overflow"
            /\ UNCHANGED <<toGenerate, rendered>>
       ELSE /\ pc' = "extracted"
            /\ toGenerate' = <<r.t>>
            /\ rendered' = [Printed |-> r.t]
  /\ UNCHANGED <<variant, neededPkgs, confPkgs, orderFields, err, pkgs,
                 loadedPkgs, loadCalls, exportedStructs, nextStruct, pending,
                 pkgKeys, files, run, prevFiles, bld>>

NextSingle == SingleLoad \/ SingleExtract

SpecSingle == InitSingle /\ [][NextSingle]_vars

(***************************************************************************)
(* The loader's bookkeeping.                                               *)
(***************************************************************************)
\* The packages registered by the successful loader calls before call i.
LoadedBefore(i) ==
  UNION {Range(loadCalls[j]) :
           j \in {k \in 1..(i - 1) : Load(loadCalls[k]).err = ""}}

\* C21: at every moment the loaded-package list holds no package identifier
\* twice, the registry is the set of the identifiers in the list, and every
\* on-demand loader call (every call after the initial one) asks for a
\* package that no earlier successful call had registered.
C21_LoaderBookkeeping ==
  /\ \A i, j \in 1..Len(pkgs) : pkgs[i] = pkgs[j] => i = j
  /\ loadedPkgs = Range(pkgs)
  /\ \A i \in 2..Len(loadCalls) :
       \A p \in Range(loadCalls[i]) : p \notin LoadedBefore(i)

\* Order has two fields of a type of package b/m, which the initial load
\* did not ask for: the first field loads it on demand, the second finds it
\* registered.
C21_Witness ==
  /\ OrderExtracted
  /\ Len(OrderNode.StructFields) = 2
  /\ \A i \in 1..2 : OrderNode.StructFields[i].ValType.PkgPath = PkgB
  /\ loadCalls = <<<<PkgA>>, <<PkgB>>>>
  /\ pkgs = <<PkgA, PkgB>>

(***************************************************************************)
(* The field attributes of a structure.                                    *)
(***************************************************************************)
\* The first character of a name: one byte, or the two bytes of an encoding
\* that starts with C3.
FirstRune(n) == IF Len(n) >= 2 /\ n[1] = "C3" THEN <<n[1], n[2]>> ELSE <<n[1]>>

\* A name is exported when its first character is an upper-case letter.
IsExportedName(n) ==
  Len(n) > 0 /\ FirstRune(n) \in {<<c>> : c \in UpperChars} \cup {UpperEAcute}

\* The field names the i-th declaration of Order is to contribute.
RECURSIVE ExportedNames(_)
ExportedNames(ns) ==
  IF Len(ns) = 0 THEN <<>>
  ELSE (IF IsExportedName(Head(ns)) THEN <<Head(ns)>> ELSE <<>>)
       \o ExportedNames(Tail(ns))
ContributedNames(i) ==
  IF ~Verdict(i).ok THEN <<>>
  ELSE IF Len(orderFields[i].names) = 0 THEN <<Verdict(i).t.TypeName>>
  ELSE ExportedNames(orderFields[i].names)
RECURSIVE ContributedUpTo(_)
ContributedUpTo(i) ==
  IF i = 0 THEN <<>> ELSE ContributedUpTo(i - 1) \o ContributedNames(i)

\* C22: once Order is extracted its field attributes are, in declaration
\* order, one for each exported name of each usable named declaration and
\* one, named as the embedded type, for each usable embedded declaration,
\* every one bound to Order's name; and a named field whose name is not
\* exported has no setter in Order's builder.
C22_FieldAttributesOfTheDeclarations ==
  /\ OrderExtracted =>
       /\ [i \in 1..Len(OrderNode.StructFields) |->
             OrderNode.StructFields[i].FieldName]
            = ContributedUpTo(Len(orderFields))
       /\ \A i \in 1..Len(OrderNode.StructFields) :
            OrderNode.StructFields[i].StructName = N_Order
  /\ OrderIsRendered =>
       \A i \in 1..Len(orderFields) :
         \A k \in 1..Len(orderFields[i].names) :
           ~IsExportedName(orderFields[i].names[k])
             => SettersOf(OrderBuilder, orderFields[i].names[k]) = {}

(***************************************************************************)
(* The import table of the command-line variant.                           *)
(***************************************************************************)
\* The nodes of the tree of a field's type: the node and, nested, its slice
\* element, its map key and value, its function parameters and results.
RECURSIVE cli_Nodes(_)
cli_Nodes(t) ==
  LET Each(ts) == UNION {cli_Nodes(ts[i]) : i \in 1..Len(ts)}
  IN  {t} \cup Each(t.SliceValType) \cup Each(t.MapKeyType)
          \cup Each(t.MapValType) \cup Each(t.FuncParamTypes)
          \cup Each(t.FuncResultTypes)

\* The With setter rendered for field attribute fa.
cli_WithSetterOf(fa) ==
  LET all == Flatten([i \in 1..Len(rendered.Builders) |->
                        rendered.Builders[i].Setters])
  IN  {all[j] : j \in {j \in 1..Len(all) :
                         /\ all[j].Kind = "With"
                         /\ all[j].StructName = fa.StructName
                         /\ all[j].FieldName = fa.FieldName}}

\* C23: when main of the command-line variant is done, the package of
\* every named type in the tree of an emitted field's type, nested ones
\* included, is in the import table, and the field's With setter names that
\* type qualified by the package's alias.
C23_ImportsCoverNestedTypes ==
  pc = "done" =>
    \A i \in 1..Len(toGenerate) :
      \A j \in 1..Len(toGenerate[i].StructFields) :
        \A n \in cli_Nodes(toGenerate[i].StructFields[j].ValType) :
          n.PkgPath # <<>> =>
            /\ \E k \in DOMAIN rendered.Imports :
                 rendered.Imports[k] = n.PkgPath
            /\ \A st \in cli_WithSetterOf(toGenerate[i].StructFields[j]) :
                 Contains(st.Params[1],
                          pkgKeys[n.PkgPath] \o <<".">> \o n.TypeName)

(***************************************************************************)
(* Termination of the extraction of the single-structure variants.         *)
(***************************************************************************)
\* C24: in the single-structure variants the extraction of the target
\* structure comes to its end, also when the target refers to itself or to a
\* structure that refers back to it: the stack never overflows.
C24_ExtractionTerminates == pc # "overflow"

====
